---- MODULE Spec2Model ----
(***************************************************************************)
(* Verification model of the VER (verifiable execution reordering)         *)
(* pipeline of gasp-xyz/substrate: the seeded PRNG and the deterministic   *)
(* shuffler (primitives/shuffler), the block verifier (frame/executive)    *)
(* and the block proposer (client/basic-authorship-ver,                    *)
(* client/block-builder-ver).                                              *)
(***************************************************************************)
EXTENDS Integers, Sequences, FiniteSets, TLC

VARIABLES
    sh_input,   \* shuffler: the (who, tx) list handed to shuffle_using_seed
    sh_seed,    \* shuffler: the 32-byte seed
    sh_run,     \* shuffler: result of the run (slots, swaps), or NoRun
    sh_phase,   \* shuffler: "ready" before the call, "done" after it, "off"
    storage,    \* chain: the committed runtime storage of the best block
    last,       \* chain: the last block handed to the verifier and its outcome
    pw,         \* proposer: the state of one call of propose_with
    bb,         \* block builder: one BlockBuilder from new to build_with_seed
    vest        \* vesting pallet: the balance, schedules and lock of one account

vars == <<sh_input, sh_seed, sh_run, sh_phase, storage, last, pw, bb, vest>>

sh_vars == <<sh_input, sh_seed, sh_run, sh_phase>>

chain_vars == <<storage, last, pw>>

(***************************************************************************)
(* Bounds of the model                                                     *)
(***************************************************************************)
MaxLen == 4          \* longest list handed to the shuffler
NumAccounts == 2     \* signers Some(1) .. Some(NumAccounts); 0 stands for None

(***************************************************************************)
(* 64-bit words.  TLC integers are 32 bit wide, so a u64 is the set of its *)
(* set bit positions (0 = least significant).                              *)
(***************************************************************************)
WordBits == 64
HalfBits == 32
ByteBits == 8

Bit == 0 .. (WordBits - 1)

Pow2(n) == 2 ^ n

\* a ^ b on u64
Xor(a, b) == {i \in Bit : (i \in a) # (i \in b)}

\* a << k on u64 (bits shifted out are lost)
Shl(a, k) == {i \in Bit : i >= k /\ (i - k) \in a}

\* a >> k on u64
Shr(a, k) == {i \in Bit : i + k < WordBits /\ (i + k) \in a}

\* a | b on u64
Or(a, b) == {i \in Bit : i \in a \/ i \in b}

\* the carry into bit i of a + b: some lower bit generates a carry and every
\* bit between propagates it
CarryInto(a, b, i) ==
    \E j \in 0 .. (i - 1) :
        /\ j \in a /\ j \in b
        /\ \A k \in (j + 1) .. (i - 1) : k \in a \/ k \in b

\* u64::wrapping_add: the carry out of bit 63 is dropped
wrapping_add(a, b) ==
    {i \in Bit : ((i \in a) # (i \in b)) # CarryInto(a, b, i)}

\* `x as u32`: the low 32 bits
AsU32(a) == {i \in Bit : i < HalfBits /\ i \in a}

\* 2^i % m for i in Bit and a small m >= 1, without leaving 32-bit integers
LimbBits == 16
PowMod(i, m) ==
    LET lo == Pow2(i % LimbBits) % m
        hi == IF i < LimbBits THEN 1 % m
              ELSE ((Pow2(LimbBits) % m) ^ (i \div LimbBits)) % m
    IN  (lo * hi) % m

\* random % m for a u64 `random` and a small m >= 1: the sum of 2^i % m over
\* the set bits, counted as a set of (bit, unit) pairs, reduced mod m
ModWord(a, m) ==
    Cardinality({p \in Bit \X (1 .. (m - 1)) : p[1] \in a /\ p[2] <= PowMod(p[1], m)}) % m

\* u64::from_le_bytes(seed[from .. from + 8]) (from is 0-based): bit i of the
\* word is bit i % 8 of byte i / 8
from_le_bytes(seed, from) ==
    {i \in Bit : (seed[from + (i \div ByteBits) + 1] \div Pow2(i % ByteBits)) % 2 = 1}

(***************************************************************************)
(* Xoshiro256PlusPlus                                                      *)
(***************************************************************************)
RotlBy == 45
ShiftBy == 17

rotl(x, k) == Or(Shl(x, k), Shr(x, WordBits - k))

\* Xoshiro256PlusPlus::from_seed: four little-endian words
from_seed(seed) ==
    <<from_le_bytes(seed, 0), from_le_bytes(seed, 8),
      from_le_bytes(seed, 16), from_le_bytes(seed, 24)>>

\* a generator step that leaves out the rotation of s3
StepWithoutRotate(s) ==
    <<Xor(s[1], Xor(s[4], s[2])), Xor(s[2], Xor(s[3], s[1])),
      Xor(Xor(s[3], s[1]), Shl(s[2], 17)), Xor(s[4], s[2])>>

\* one generator step: the state after the step (s is <<s0, s1, s2, s3>>)
XoshiroStep(s) ==
    LET t   == Shl(s[2], ShiftBy)
        s2a == Xor(s[3], s[1])
        s3a == Xor(s[4], s[2])
        s1b == Xor(s[2], s2a)
        s0b == Xor(s[1], s3a)
        s2c == Xor(s2a, t)
        s3c == rotl(s3a, RotlBy)
    IN  <<s0b, s1b, s2c, s3c>>

\* next_u32: [val |-> the u32 returned, s |-> the state afterwards]
next_u32(s) ==
    LET n == XoshiroStep(s)
    IN  [val |-> AsU32(wrapping_add(n[1], n[4])), s |-> n]

\* `first | second` of next_u64, and the generator state after both draws
JoinHalves(first, second) ==
    [val |-> Or(Shl(first.val, HalfBits), second.val), s |-> second.s]

\* the second next_u32 call of next_u64, made on the state the first one left
SecondHalf(first) == JoinHalves(first, next_u32(first.s))

\* a next_u64 that puts the first draw in the low half
LowHalfFirst(s) ==
    [val |-> Or(next_u32(s).val, Shl(next_u32(next_u32(s).s).val, 32)),
     s |-> next_u32(next_u32(s).s).s]

\* next_u64: two next_u32 calls, the first one in the high half
next_u64(s) == SecondHalf(next_u32(s))

(***************************************************************************)
(* FisherYates                                                             *)
(***************************************************************************)
\* FisherYates::from_bytes
from_bytes(bytes) == from_seed(bytes)

\* a swap partner drawn from 0 .. i
SwapPartnerInclusive(random, i) == ModWord(random, i + 1)

\* the swap partner drawn for position i (0-based) from `random`
SwapPartner(random, i) == ModWord(random, i)

\* a swap that loses an element: data[i] = data[j] without the exchange
SwapOverwrite(data, i, j) ==
    [k \in DOMAIN data |-> IF k = i + 1 THEN data[j + 1] ELSE data[k]]

\* slice.swap(i, j) with 0-based i, j
SwapAt(data, i, j) ==
    [k \in DOMAIN data |->
        IF k = i + 1 THEN data[j + 1]
        ELSE IF k = j + 1 THEN data[i + 1]
        ELSE data[k]]

\* FisherYates::shuffle: for i in (1..data.len()).rev().  `i` is the next
\* position to handle; swaps is the log of <<i, j, random>> draws made so far.
RECURSIVE FYLoop(_, _, _, _)
RECURSIVE FYSwap(_, _, _, _, _)

\* the body of the loop once `random` is drawn: r is what next_u64 returned
FYDraw(r, data, i, swaps) == FYSwap(r, SwapPartner(r.val, i), data, i, swaps)

\* data.swap(i, j), then the next position
FYSwap(r, j, data, i, swaps) ==
    FYLoop(r.s, SwapAt(data, i, j), i - 1,
           Append(swaps, [i |-> i, j |-> j, random |-> r.val]))

FYLoop(rng, data, i, swaps) ==
    IF i < 1 THEN [rng |-> rng, data |-> data, swaps |-> swaps]
    ELSE FYDraw(next_u64(rng), data, i, swaps)

FisherYates_shuffle(rng, data) == FYLoop(rng, data, Len(data) - 1, <<>>)

(***************************************************************************)
(* shuffle_using_seed                                                      *)
(***************************************************************************)
NoneSigner == 0
Accounts == 1 .. NumAccounts
Signers == {NoneSigner} \cup Accounts

\* the BTreeMap<Option<A>, VecDeque<E>> built by the fold: who -> its txs in
\* input order; a key is present iff its queue is non-empty
GroupOf(extrinsics, who) ==
    LET idx == {i \in DOMAIN extrinsics : extrinsics[i][1] = who}
        RECURSIVE Collect(_)
        Collect(i) ==
            IF i > Len(extrinsics) THEN <<>>
            ELSE IF i \in idx THEN <<extrinsics[i][2]>> \o Collect(i + 1)
            ELSE Collect(i + 1)
    IN  Collect(1)

Grouped(extrinsics) ==
    [who \in {extrinsics[i][1] : i \in DOMAIN extrinsics} |-> GroupOf(extrinsics, who)]

\* the keys of the map in Ord order (None first)
RECURSIVE SortedKeys(_)
SortedKeys(keys) ==
    IF keys = {} THEN <<>>
    ELSE LET m == CHOOSE k \in keys : \A o \in keys : k <= o
         IN  <<m>> \o SortedKeys(keys \ {m})

\* a queue drained from the wrong end (pop_back)
PopBack(q) == [head |-> q[Len(q)], rest |-> SubSeq(q, 1, Len(q) - 1)]

\* txs_from_account.pop_front()
PopFront(q) == [head |-> Head(q), rest |-> Tail(q)]

\* the `for k in keys` loop: one front element of every group, in key order
RoundOf(groups) ==
    LET keys == SortedKeys(DOMAIN groups)
    IN  [i \in 1 .. Len(keys) |-> PopFront(groups[keys[i]]).head]

\* the map after the loop: every group lost its front, empty groups are removed
AfterRound(groups) ==
    LET left == {k \in DOMAIN groups : PopFront(groups[k]).rest # <<>>}
    IN  [k \in left |-> PopFront(groups[k]).rest]

\* slots after fy.shuffle returned: `before` is the part of slots the
\* shuffle did not touch, fy the run of the shuffle over the rest
SlotsAfter(before, fy) ==
    [rng |-> fy.rng, slots |-> before \o fy.data, swaps |-> fy.swaps]

\* a shuffle of slots[0..to] instead of slots[from..to]
ShuffleWhole(rng, slots, round) ==
    SlotsAfter(<<>>, FisherYates_shuffle(rng, slots \o round))

\* slots[from..to] is the round just pushed; fy.shuffle permutes that slice only
ShuffleSlice(rng, slots, round) ==
    SlotsAfter(slots, FisherYates_shuffle(rng, round))

\* the `while !grouped_extrinsics.is_empty()` loop
RECURSIVE RoundsLoop(_, _, _, _, _)

\* the end of one iteration: sl is the slice shuffle of the round just pushed
NextRound(sl, groups, swaps, rounds) ==
    RoundsLoop(sl.rng, AfterRound(groups), sl.slots,
               swaps \o sl.swaps, Append(rounds, Len(RoundOf(groups))))

RoundsLoop(rng, groups, slots, swaps, rounds) ==
    IF DOMAIN groups = {} THEN [slots |-> slots, swaps |-> swaps, rounds |-> rounds]
    ELSE NextRound(ShuffleSlice(rng, slots, RoundOf(groups)), groups, swaps, rounds)

\* the run of shuffle_using_seed with its log of swaps and round lengths
ShuffleRun(extrinsics, seed) ==
    RoundsLoop(from_bytes(seed), Grouped(extrinsics), <<>>, <<>>, <<>>)

shuffle_using_seed(extrinsics, seed) == ShuffleRun(extrinsics, seed).slots

NoRun == [slots |-> <<>>, swaps |-> <<>>, rounds |-> <<>>]

(***************************************************************************)
(* Seeds used by the checks: the all-zero default seed and the two seeds   *)
(* of the test shuffle_using_different_seed_produces_different_results.    *)
(***************************************************************************)
ZeroSeed == [i \in 1 .. 32 |-> 0]

TestSeed1 ==
    <<255, 134, 17, 164, 210, 18, 252, 22, 29, 174, 25, 221, 87, 240, 241, 186,
      147, 9, 244, 93, 98, 7, 218, 19, 242, 211, 234, 180, 198, 131, 158, 145>>

TestSeed2 ==
    <<8, 118, 213, 29, 194, 193, 9, 178, 233, 188, 163, 34, 232, 112, 104, 121,
      214, 137, 132, 168, 3, 26, 83, 125, 118, 208, 178, 22, 147, 163, 219, 208>>

Seeds == {ZeroSeed, TestSeed1, TestSeed2}

(***************************************************************************)
(* Bounds of the chain model                                               *)
(***************************************************************************)
MaxBlocks == 2        \* blocks imported on top of genesis
MaxNonce == 2         \* transactions carry a nonce in 0 .. MaxNonce - 1
MaxBatch == 2         \* longest enqueue batch and longest pool
MaxBlockWeight == 2   \* the block weight limit, in units of one transaction

(***************************************************************************)
(* Extrinsics and their encoding.  An extrinsic is a record; its encoding  *)
(* is a tuple tagged "xt".  Bytes that carry another tag do not decode.    *)
(***************************************************************************)
SignedXt(who, nonce, sig) ==
    [kind |-> "signed", who |-> who, nonce |-> nonce, sig |-> sig, txs |-> <<>>]

\* the frame_system::Call::enqueue_txs inherent (unsigned)
EnqueueXt(txs) ==
    [kind |-> "enqueue", who |-> NoneSigner, nonce |-> 0, sig |-> FALSE, txs |-> txs]

\* Extrinsic::is_signed()
is_signed(xt) == xt.kind = "signed"

IsInherent(xt) == ~is_signed(xt)

\* Encode::encode of a signed extrinsic
Encode(xt) == <<"xt", xt.who, xt.nonce, xt.sig>>

\* bytes that are no extrinsic (b"not an extrinsic")
Garbage == <<"raw", 0, 0, FALSE>>

\* Block::Extrinsic::decode: Ok(xt) or Err
Decode(bytes) ==
    IF bytes[1] = "xt"
    THEN [ok |-> TRUE, xt |-> SignedXt(bytes[2], bytes[3], bytes[4])]
    ELSE [ok |-> FALSE, xt |-> SignedXt(NoneSigner, 0, FALSE)]

\* VerApi::get_signer on raw bytes: the signer, None for bytes that do not decode
SignerOfBytes(bytes) == IF Decode(bytes).ok THEN Decode(bytes).xt.who ELSE NoneSigner

\* the signed extrinsics of the checks: every account and nonce properly
\* signed, and one extrinsic with a bad signature
TxUniverse ==
    {SignedXt(a, n, TRUE) : a \in Accounts, n \in 0 .. (MaxNonce - 1)}
        \cup {SignedXt(1, 0, FALSE)}

\* the transactions that carry a call too heavy for any block
HeavyTxs == {SignedXt(NumAccounts, MaxNonce - 1, TRUE)}

\* the weight of one signed extrinsic (DispatchInfo::weight): one unit, more
\* than a whole block for a heavy call, nothing for an inherent
TxWeight(xt) ==
    IF ~is_signed(xt) THEN 0
    ELSE IF xt \in HeavyTxs THEN MaxBlockWeight + 1
    ELSE 1

(***************************************************************************)
(* The VRF, as a black box: the output for (key, prev_seed) is a fixed     *)
(* function of both, the proof names the key and the transcript.  Seeds    *)
(* are indices into SeedTable, which holds their 32 bytes.                 *)
(***************************************************************************)
SeedTable == <<ZeroSeed, TestSeed1, TestSeed2>>

SeedIds == 0 .. (Len(SeedTable) - 1)

SeedBytes(id) == SeedTable[id + 1]

NoKey == 0        \* an empty public key (vec![])
AuthorKey == 1    \* the key of the block author
OtherKey == 2     \* some other well-formed key

Keys == {AuthorKey, OtherKey}

\* sr25519_vrf_sign over the transcript ("shuffling_seed", prev_seed)
vrf_output(key, prev_seed) == (prev_seed + key) % Len(SeedTable)

vrf_sign(key, prev_seed) ==
    [seed |-> vrf_output(key, prev_seed), proof |-> <<key, prev_seed>>]

\* PublicKey::vrf_verify(transcript(prev_seed), seed, proof)
vrf_verify(public, prev_seed, seed, proof) ==
    /\ proof = <<public, prev_seed>>
    /\ seed = vrf_output(public, prev_seed)

(***************************************************************************)
(* Runtime storage (frame_system).                                         *)
(*   number      block number                                              *)
(*   seed        BlockSeed                                                 *)
(*   queue       StorageQueue: entries [nr, shuffled, index, txs] where    *)
(*               txs is a sequence of <<who, bytes>>                       *)
(*   nonces      account nonces                                            *)
(*   weight      BlockWeight of the block being executed                   *)
(*   did_enqueue enqueue_txs was called in the block being executed        *)
(*   digest      the logs deposited in the block being executed            *)
(*   executed    history: the <<bytes, nr>> applied with success in the    *)
(*               block being executed, nr the block that enqueued them     *)
(***************************************************************************)
Genesis ==
    [number |-> 0, seed |-> 0, queue |-> <<>>, nonces |-> [a \in Accounts |-> 0],
     weight |-> 0, did_enqueue |-> FALSE, digest |-> <<>>, executed |-> <<>>]

\* frame_system::Pallet::block_seed
block_seed(st) == st.seed

\* frame_system::Pallet::block_number
block_number(st) == st.number

\* frame_system::Pallet::enqueued_blocks_count
enqueued_blocks_count(st) == Len(st.queue)

\* the number of transactions waiting in the queue
QueueSize(st) ==
    Cardinality(UNION {{<<e, i>> : i \in (st.queue[e].index + 1) .. Len(st.queue[e].txs)} :
                          e \in DOMAIN st.queue})

\* frame_system: the batches a queue entry can hold
RECURSIVE SeqsUpTo(_, _)
SeqsUpTo(S, n) ==
    IF n = 0 THEN {<<>>}
    ELSE LET shorter == SeqsUpTo(S, n - 1)
         IN  shorter \cup {Append(s, x) : s \in {t \in shorter : Len(t) = n - 1}, x \in S}

\* the raw payloads a collator may put into an enqueue_txs inherent
ByteUniverse == {Encode(xt) : xt \in TxUniverse} \cup {Garbage}

\* the signer a collator records next to a payload: the one get_signer
\* infers, or none
RecordedSigners(b) == {SignerOfBytes(b), NoneSigner}

Batches ==
    SeqsUpTo({p \in Signers \X ByteUniverse : p[1] \in RecordedSigners(p[2])}, MaxBatch)

\* what a queue entry can hold: any signer next to any payload
QueueBatches == SeqsUpTo(Signers \X ByteUniverse, MaxBatch)

\* the shuffle of every entry under every seed, computed once
ShuffleTable ==
    [batch \in QueueBatches, seed \in SeedIds |->
        shuffle_using_seed([i \in DOMAIN batch |-> <<batch[i][1], batch[i]>>],
                           SeedBytes(seed))]

\* an entry is shuffled with the seed of the block that follows the one
\* that enqueued it (sp_ver::shuffle_using_seed over the (who, tx) pairs)
ShuffleEntry(entry, seed) ==
    [entry EXCEPT !.shuffled = TRUE, !.txs = ShuffleTable[entry.txs, seed]]

\* frame_system::Pallet::set_block_seed / VerApi::store_seed: stores the seed
\* and shuffles the entries that were enqueued since the last seed was stored
set_block_seed(st, seed) ==
    [st EXCEPT
        !.seed = seed,
        !.queue = [e \in DOMAIN st.queue |->
                      IF st.queue[e].shuffled THEN st.queue[e]
                      ELSE ShuffleEntry(st.queue[e], seed)]]

\* a pop that serves the newest entry first
pop_tx_newest(st) ==
    IF st.queue = <<>> THEN [some |-> FALSE, data |-> Garbage, nr |-> 0, st |-> st]
    ELSE LET e    == st.queue[Len(st.queue)]
             item == e.txs[e.index + 1]
             kept == SubSeq(st.queue, 1, Len(st.queue) - 1)
         IN  [some |-> TRUE, data |-> item[2], nr |-> e.nr,
              st |-> [st EXCEPT !.queue =
                         IF e.index + 1 = Len(e.txs) THEN kept
                         ELSE Append(kept, [e EXCEPT !.index = e.index + 1])]]

\* VerApi::pop_tx: the next transaction of the oldest entry; the entry's
\* cursor advances and a drained entry leaves the queue
pop_tx(st) ==
    IF st.queue = <<>> THEN [some |-> FALSE, data |-> Garbage, nr |-> 0, st |-> st]
    ELSE LET e    == Head(st.queue)
             item == e.txs[e.index + 1]
         IN  [some |-> TRUE, data |-> item[2], nr |-> e.nr,
              st |-> [st EXCEPT !.queue =
                         IF e.index + 1 = Len(e.txs) THEN Tail(st.queue)
                         ELSE <<[e EXCEPT !.index = e.index + 1]>> \o Tail(st.queue)]]

\* frame_system::Pallet::pop_txs(len): up to len transactions from the front
\* of the queue; elems are [data, nr], nr the block that enqueued the bytes
RECURSIVE PopLoop(_, _, _)
PopLoop(st, len, elems) ==
    LET p == pop_tx(st)
    IN  IF len = 0 \/ ~p.some THEN [elems |-> elems, st |-> st]
        ELSE PopLoop(p.st, len - 1, Append(elems, [data |-> p.data, nr |-> p.nr]))

pop_txs(st, len) == PopLoop(st, len, <<>>)

\* frame_system::Call::enqueue_txs, dispatched as an inherent: one call per
\* block; a non-empty list becomes a new entry and a digest log of its hashes
AlreadyEnqueued == "enqueue_txs inherent can only be called once per block"

enqueue_txs(st, txs) ==
    IF st.did_enqueue THEN [res |-> AlreadyEnqueued, st |-> st]
    ELSE IF txs = <<>> THEN [res |-> "ok", st |-> [st EXCEPT !.did_enqueue = TRUE]]
    ELSE [res |-> "ok",
          st |-> [st EXCEPT
                    !.did_enqueue = TRUE,
                    !.queue = Append(@, [nr |-> st.number, shuffled |-> FALSE,
                                         index |-> 0, txs |-> txs]),
                    !.digest = Append(@, [i \in DOMAIN txs |-> txs[i][2]])]]

\* frame_system::calculate_consumed_weight: Ok(total) or Err(ExhaustsResources)
calculate_consumed_weight(max, all, info) ==
    IF all + info > max THEN [ok |-> FALSE, all |-> all]
    ELSE [ok |-> TRUE, all |-> all + info]

\* frame_system::Pallet::initialize: a new block starts
system_initialize(st, number) ==
    [st EXCEPT !.number = number, !.weight = 0, !.did_enqueue = FALSE,
               !.digest = <<>>, !.executed = <<>>]

\* frame_system::Pallet::finalize: temporaries are removed; the header it
\* returns carries the digest and the state root
system_finalize(st) == [st EXCEPT !.weight = 0, !.did_enqueue = FALSE]

\* the state root: a digest of the storage the chain keeps
StateRoot(st) ==
    [number |-> st.number, seed |-> st.seed, queue |-> st.queue,
     nonces |-> st.nonces, digest |-> st.digest]

\* the extrinsics root: a digest of the encoded body
ExtrinsicsRoot(body) == [i \in DOMAIN body |-> <<body[i].kind, Encode(body[i]), body[i].txs>>]

(***************************************************************************)
(* The dispatch engine: apply one extrinsic against the storage.           *)
(***************************************************************************)
BadProof == "Transaction has a bad signature"
Stale == "Transaction is outdated"
Future == "Transaction will be valid in the future"
ExhaustsResources == "Transaction would exhaust the block limits"
BadMandatory == "A call was labelled as mandatory, but resulted in an Error."

\* a test that also takes an outdated transaction for an exhausting one
ExhaustedOrStale(err) == err = ExhaustsResources \/ err = Stale

\* InvalidTransaction::exhausted_resources
exhausted_resources(err) == err = ExhaustsResources

\* Checkable::check: the signature check
check(xt) == IF is_signed(xt) /\ ~xt.sig THEN BadProof ELSE "ok"

\* Executive::apply_extrinsic; enq is the block that enqueued the extrinsic
apply_extrinsic(st, xt, enq) ==
    IF check(xt) # "ok" THEN [res |-> check(xt), st |-> st]
    ELSE IF xt.kind = "enqueue" THEN enqueue_txs(st, xt.txs)
    ELSE IF xt.nonce < st.nonces[xt.who] THEN [res |-> Stale, st |-> st]
    ELSE IF xt.nonce > st.nonces[xt.who] THEN [res |-> Future, st |-> st]
    ELSE IF ~calculate_consumed_weight(MaxBlockWeight, st.weight, TxWeight(xt)).ok
         THEN [res |-> ExhaustsResources, st |-> st]
    ELSE [res |-> "ok",
          st |-> [st EXCEPT
                    !.nonces[xt.who] = @ + 1,
                    !.weight = @ + TxWeight(xt),
                    !.executed = Append(@, <<Encode(xt), enq>>)]]

(***************************************************************************)
(* Blocks.  header = [number, count, seed = [seed, proof], extrinsics_root,*)
(* state_root, digest], extrinsics = the body.                             *)
(***************************************************************************)
NoPanic == ""
CannotBuildPublic == "cannot build public"
SeedVerificationFailed == "shuffling seed verification failed"
ParentHashInvalid == "Parent hash should be valid."
NotEnoughToPop == "not enought elements to pop found"
AssertionFailed == "assertion failed"
CollatorDidntExecute == "Collator didnt execute enqueued txs"
OnlyUniqueTxs == "only unique txs can be passed into queue"
CannotDeserialize == "cannot deserialize tx that has been just enqueued"
NotProperlySigned == "incomming tx needs to be properly signed"
DigestCountMismatch == "Number of digest items must match that calculated."
DigestItemMismatch == "Digest item must match that calculated."
StorageRootMismatch == "Storage root must match that calculated."

(***************************************************************************)
(* Executive: the block verifier                                           *)
(***************************************************************************)
\* Executive::initialize_block
initialize_block(st, header) == system_initialize(st, header.number)

\* a ver_checks that builds the key and skips the verification
VerChecksKeyOnly(st, block, public) ==
    IF public = NoKey THEN CannotBuildPublic ELSE NoPanic

\* Executive::ver_checks: the panic it ends with, NoPanic when it returns
ver_checks(st, block, public) ==
    LET prev_seed == block_seed(st)
    IN  IF public = NoKey THEN CannotBuildPublic
        ELSE IF ~vrf_verify(public, prev_seed, block.header.seed.seed, block.header.seed.proof)
             THEN SeedVerificationFailed
        ELSE NoPanic

\* Executive::initial_checks.  frame_system::initialize has just stored the
\* header's parent hash as the hash of block n - 1, so of the parent hash
\* check only n > 0 decides.
initial_checks(st, block) ==
    IF ~(block.header.number > 0) THEN ParentHashInvalid
    ELSE IF block.header.extrinsics_root # ExtrinsicsRoot(block.extrinsics) THEN NotEnoughToPop
    ELSE NoPanic

\* popped_elems decoded, the ones that do not decode kept as whatever the
\* failed decode left behind
DecodeUnfiltered(elems) ==
    [i \in DOMAIN elems |-> [xt |-> Decode(elems[i].data).xt, nr |-> elems[i].nr]]

\* popped_elems decoded, the ones that do not decode filtered out
RECURSIVE DecodeFilter(_)
DecodeFilter(elems) ==
    IF elems = <<>> THEN <<>>
    ELSE LET d == Decode(Head(elems).data)
         IN  (IF d.ok THEN <<[xt |-> d.xt, nr |-> Head(elems).nr]>> ELSE <<>>)
                 \o DecodeFilter(Tail(elems))

XtsOf(items) == [i \in DOMAIN items |-> items[i].xt]

\* the inherents but the last, then the popped transactions, then the last inherent
\* an order that runs every inherent before the popped transactions
InherentsFirst(curr_block_inherents, popped_txs, number) ==
    [i \in DOMAIN curr_block_inherents |->
        [xt |-> curr_block_inherents[i], nr |-> number]] \o popped_txs

tx_to_be_executed(curr_block_inherents, popped_txs, number) ==
    LET len   == Len(curr_block_inherents)
        first == IF len >= 1 THEN len - 1 ELSE 0
        inh   == [i \in DOMAIN curr_block_inherents |->
                     [xt |-> curr_block_inherents[i], nr |-> number]]
    IN  SubSeq(inh, 1, first) \o popped_txs \o SubSeq(inh, first + 1, len)

\* an execution that panics on exhausted resources only: a failed inherent
\* is skipped like a failed signed extrinsic
RECURSIVE execute_extrinsics_skip_inherents(_, _)
execute_extrinsics_skip_inherents(st, items) ==
    IF items = <<>> THEN [panic |-> NoPanic, st |-> st]
    ELSE LET r == apply_extrinsic(st, Head(items).xt, Head(items).nr)
         IN  IF r.res # "ok" /\ exhausted_resources(r.res) THEN [panic |-> r.res, st |-> st]
             ELSE execute_extrinsics_skip_inherents(r.st, Tail(items))

\* an execution that panics on a failed inherent only: a signed extrinsic
\* that would exhaust the block limits is skipped like any other
RECURSIVE execute_extrinsics_lenient(_, _)
execute_extrinsics_lenient(st, items) ==
    IF items = <<>> THEN [panic |-> NoPanic, st |-> st]
    ELSE LET r == apply_extrinsic(st, Head(items).xt, Head(items).nr)
         IN  IF r.res # "ok" /\ ~is_signed(Head(items).xt) THEN [panic |-> r.res, st |-> st]
             ELSE execute_extrinsics_lenient(r.st, Tail(items))

\* an execution without book keeping: every failed application panics
RECURSIVE execute_extrinsics_strict(_, _)
execute_extrinsics_strict(st, items) ==
    IF items = <<>> THEN [panic |-> NoPanic, st |-> st]
    ELSE LET r == apply_extrinsic(st, Head(items).xt, Head(items).nr)
         IN  IF r.res # "ok" THEN [panic |-> r.res, st |-> st]
             ELSE execute_extrinsics_strict(r.st, Tail(items))

\* Executive::execute_extrinsics_with_book_keeping: a failed application
\* panics iff the extrinsic is an inherent or the error is exhausted resources
RECURSIVE execute_extrinsics_with_book_keeping(_, _)
execute_extrinsics_with_book_keeping(st, items) ==
    IF items = <<>> THEN [panic |-> NoPanic, st |-> st]
    ELSE LET tx == Head(items).xt
             r  == apply_extrinsic(st, tx, Head(items).nr)
         IN  IF r.res # "ok" /\ (~is_signed(tx) \/ exhausted_resources(r.res))
             THEN [panic |-> r.res, st |-> st]
             ELSE execute_extrinsics_with_book_keeping(r.st, Tail(items))

\* a weight check that lets every batch pass
NeverOverweight(txs, i, all) == 0

\* a weight check that measures the batch against half of the block limit
RECURSIVE FirstOverHalf(_, _, _)
FirstOverHalf(txs, i, all) ==
    IF i > Len(txs) THEN 0
    ELSE LET w == calculate_consumed_weight(MaxBlockWeight \div 2, all, TxWeight(Decode(txs[i][2]).xt))
         IN  IF ~w.ok THEN i ELSE FirstOverHalf(txs, i + 1, w.all)

\* the weight of a just enqueued batch, accumulated from zero:
\* the first transaction that does not fit, 0 if all fit
RECURSIVE FirstOverweight(_, _, _)
FirstOverweight(txs, i, all) ==
    IF i > Len(txs) THEN 0
    ELSE LET w == calculate_consumed_weight(MaxBlockWeight, all, TxWeight(Decode(txs[i][2]).xt))
         IN  IF ~w.ok THEN i ELSE FirstOverweight(txs, i + 1, w.all)

\* checks of the enqueued batch that stop after the uniqueness assertion
new_enqueue_checks_unique_only(st) ==
    IF st.queue = <<>> THEN NoPanic
    ELSE IF st.queue[Len(st.queue)].nr # block_number(st) THEN NoPanic
    ELSE IF Cardinality({st.queue[Len(st.queue)].txs[i] :
                            i \in DOMAIN st.queue[Len(st.queue)].txs})
                # Len(st.queue[Len(st.queue)].txs) THEN OnlyUniqueTxs
    ELSE NoPanic

\* the checks of the batch enqueued by the block itself (the last entry of
\* the queue, if it carries the block's number)
new_enqueue_checks(st) ==
    IF st.queue = <<>> THEN NoPanic
    ELSE LET last_entry == st.queue[Len(st.queue)]
             txs        == last_entry.txs
             unsigned   == {i \in DOMAIN txs : check(Decode(txs[i][2]).xt) # "ok"}
             over       == FirstOverweight(txs, 1, 0)
         IN  IF last_entry.nr # block_number(st) THEN NoPanic
             ELSE IF Cardinality({txs[i] : i \in DOMAIN txs}) # Len(txs) THEN OnlyUniqueTxs
             ELSE IF \E i \in DOMAIN txs : ~Decode(txs[i][2]).ok THEN CannotDeserialize
             ELSE IF unsigned # {} /\ (over = 0 \/ \E i \in unsigned : i <= over)
                  THEN NotProperlySigned
             ELSE IF over # 0 THEN ExhaustsResources
             ELSE NoPanic

\* final checks that compare the digest only
final_checks_digest_only(st, header) ==
    IF Len(header.digest) # Len(system_finalize(st).digest) THEN DigestCountMismatch
    ELSE IF header.digest # system_finalize(st).digest THEN DigestItemMismatch
    ELSE NoPanic

\* Executive::final_checks
final_checks(st, header) ==
    LET new_header == [digest |-> system_finalize(st).digest,
                       state_root |-> StateRoot(system_finalize(st))]
    IN  IF Len(header.digest) # Len(new_header.digest) THEN DigestCountMismatch
        ELSE IF header.digest # new_header.digest THEN DigestItemMismatch
        ELSE IF header.state_root # new_header.state_root THEN StorageRootMismatch
        ELSE NoPanic

\* a count check that accepts whatever was popped
PopCountUnchecked(popped_elems, count) == NoPanic

\* the assertion on the number of popped elements
pop_count_check(popped_elems, count) ==
    IF Len(popped_elems) # count THEN NotEnoughToPop ELSE NoPanic

\* an assertion that never finds the collator at fault
CollatorAlwaysExecuted(before, count, after) == TRUE

\* the assertion that a block which pops nothing while entries are queued
\* does not add an entry
collator_executed(before, count, after) ==
    before = 0 \/ (count # 0 \/ before = after)

\* execute_block_ver_impl from the new-enqueue checks on: exec is what
\* execute_extrinsics_with_book_keeping returned, before the number of queue
\* entries when it was called
ImplAfterExecution(exec, before, header) ==
    IF exec.panic # NoPanic THEN exec
    ELSE IF ~collator_executed(before, header.count, enqueued_blocks_count(exec.st))
         THEN [panic |-> CollatorDidntExecute, st |-> exec.st]
    ELSE IF new_enqueue_checks(exec.st) # NoPanic
         THEN [panic |-> new_enqueue_checks(exec.st), st |-> exec.st]
    ELSE IF final_checks(exec.st, header) # NoPanic
         THEN [panic |-> final_checks(exec.st, header), st |-> exec.st]
    ELSE [panic |-> NoPanic, st |-> system_finalize(exec.st)]

\* a comparison that looks at the elements and not at their order
SameElements(popped_txs, curr_block_extrinsics) ==
    /\ Len(popped_txs) = Len(curr_block_extrinsics)
    /\ \A x \in {popped_txs[i] : i \in DOMAIN popped_txs}
                 \cup {curr_block_extrinsics[i] : i \in DOMAIN curr_block_extrinsics} :
           Cardinality({i \in DOMAIN popped_txs : popped_txs[i] = x})
               = Cardinality({i \in DOMAIN curr_block_extrinsics : curr_block_extrinsics[i] = x})

\* assert_eq!(popped_txs, curr_block_extrinsics): equal as vectors
body_matches_popped(popped_txs, curr_block_extrinsics) ==
    popped_txs = curr_block_extrinsics

\* execute_block_ver_impl from the body checks on: popped_txs are the popped
\* elements that decode, st the storage pop_txs left
ImplAfterDecode(st, popped_txs, block) ==
    LET header == block.header
        curr_block_inherents  == SelectSeq(block.extrinsics, IsInherent)
        curr_block_extrinsics == SelectSeq(block.extrinsics, is_signed)
    IN  IF Len(curr_block_extrinsics) > 0 /\ ~(st.queue = <<>> \/ header.count > 0)
        THEN [panic |-> AssertionFailed, st |-> st]
        ELSE IF ~body_matches_popped(XtsOf(popped_txs), curr_block_extrinsics)
             THEN [panic |-> AssertionFailed, st |-> st]
        ELSE ImplAfterExecution(
                 execute_extrinsics_with_book_keeping(st,
                     tx_to_be_executed(curr_block_inherents, popped_txs, header.number)),
                 enqueued_blocks_count(st), header)

\* execute_block_ver_impl from the count assertion on: pop is what pop_txs
\* returned
ImplAfterPop(pop, block) ==
    IF pop_count_check(pop.elems, block.header.count) # NoPanic
    THEN [panic |-> pop_count_check(pop.elems, block.header.count), st |-> pop.st]
    ELSE ImplAfterDecode(pop.st, DecodeFilter(pop.elems), block)

\* execute_block_ver_impl from initial_checks on: s_seed is the storage with
\* the header's seed stored
ImplAfterSeed(s_seed, block) ==
    IF initial_checks(s_seed, block) # NoPanic
    THEN [panic |-> initial_checks(s_seed, block), st |-> s_seed]
    ELSE ImplAfterPop(pop_txs(s_seed, block.header.count), block)

\* execute_block_ver_impl from ver_checks on: s_init is the storage after
\* initialize_block
ImplAfterInit(s_init, block, public) ==
    IF ver_checks(s_init, block, public) # NoPanic
    THEN [panic |-> ver_checks(s_init, block, public), st |-> s_init]
    ELSE ImplAfterSeed(set_block_seed(s_init, block.header.seed.seed), block)

\* Executive::execute_block_ver_impl: [panic, st], st the storage when the
\* call returned or panicked
execute_block_ver_impl(st0, block, public) ==
    ImplAfterInit(initialize_block(st0, block.header), block, public)

(***************************************************************************)
(* Blocks handed to the verifier by other collators.  A block is described *)
(* by the count it declares, the batch it enqueues and at most one defect. *)
(***************************************************************************)
Defects ==
    {"none", "wrong_seed", "stale_proof", "other_key", "no_key",
     "reversed", "dropped", "extra", "double_enqueue",
     "bad_state_root", "bad_digest", "bad_extrinsics_root"}

\* the seed of the header: signed by the author over the stored seed, unless
\* the defect is in the seed
HeaderSeed(parent, defect) ==
    LET honest == vrf_sign(AuthorKey, block_seed(parent))
    IN  CASE defect = "wrong_seed"  -> [honest EXCEPT !.seed = (@ + 1) % Len(SeedTable)]
          [] defect = "stale_proof" -> vrf_sign(AuthorKey, (block_seed(parent) + 1) % Len(SeedTable))
          [] defect = "other_key"   -> vrf_sign(OtherKey, block_seed(parent))
          [] OTHER                  -> honest

\* the public key handed to execute_block_ver
PublicOf(defect) == IF defect = "no_key" THEN NoKey ELSE AuthorKey

Reverse(s) == [i \in DOMAIN s |-> s[Len(s) + 1 - i]]

\* the signed part of the body: the transactions the verifier will pop for
\* the declared count, unless the defect is in the body
BodyWithDefect(popped, defect) ==
    CASE defect = "reversed" -> Reverse(popped)
      [] defect = "dropped"  -> SubSeq(popped, 1, Len(popped) - 1)
      [] defect = "extra"    -> Append(popped, SignedXt(1, 0, TRUE))
      [] OTHER               -> popped

SignedBody(parent, number, seed, count, defect) ==
    BodyWithDefect(
        XtsOf(DecodeFilter(
            pop_txs(set_block_seed(system_initialize(parent, number), seed), count).elems)),
        defect)

\* the inherents of the body: the enqueue_txs call, if the block has one
InherentBody(batch, has_batch, defect) ==
    IF ~has_batch THEN <<>>
    ELSE IF defect = "double_enqueue" THEN <<EnqueueXt(batch), EnqueueXt(batch)>>
    ELSE <<EnqueueXt(batch)>>

\* the header fields the author computes by executing the block
WithRoots(block, final) ==
    [block EXCEPT !.header.digest = final.digest,
                  !.header.state_root = StateRoot(final)]

Seal(parent, block, public) ==
    WithRoots(block, system_finalize(execute_block_ver_impl(parent, block, public).st))

MakeBlock(number, count, seed, body) ==
    [header |-> [number |-> number, count |-> count, seed |-> seed,
                 extrinsics_root |-> ExtrinsicsRoot(body),
                 state_root |-> StateRoot(Genesis), digest |-> <<>>],
     extrinsics |-> body]

\* the defects of the header fields, put into the sealed block
HeaderWithDefect(sealed, defect) ==
    CASE defect = "bad_state_root" ->
             [sealed EXCEPT !.header.state_root.number = @ + 1]
      [] defect = "bad_digest" ->
             [sealed EXCEPT !.header.digest = <<<<Garbage>>>>]
      [] defect = "bad_extrinsics_root" ->
             [sealed EXCEPT !.header.extrinsics_root =
                  ExtrinsicsRoot(Append(sealed.extrinsics, SignedXt(1, 0, TRUE)))]
      [] OTHER -> sealed

ForeignBlock(parent, count, batch, has_batch, defect) ==
    LET number == parent.number + 1
        seed   == HeaderSeed(parent, defect)
        body   == SignedBody(parent, number, seed.seed, count, defect)
                      \o InherentBody(batch, has_batch, defect)
    IN  HeaderWithDefect(
            Seal(parent, MakeBlock(number, count, seed, body), PublicOf(defect)),
            defect)

(***************************************************************************)
(* The proposer and its block builder.  A builder is [api, extrinsics,     *)
(* txs_count]: the working storage of the block under construction, the    *)
(* body so far and the number of transactions popped from the queue.  The  *)
(* clock stays before the deadline and the size limit is not reached.      *)
(***************************************************************************)
MAX_SKIPPED_TRANSACTIONS == 8

\* the pools the proposer may find: ready transactions, each one once
Pools == {pool \in SeqsUpTo(TxUniverse, MaxBatch) :
             \A i, j \in DOMAIN pool : i # j => pool[i] # pool[j]}

\* VerApi::get_signer
get_signer(xt) == IF is_signed(xt) THEN xt.who ELSE NoneSigner

\* client.new_block_at: the builder is opened on the parent state
new_block_at(parent) ==
    [api |-> initialize_block(parent, [number |-> parent.number + 1]),
     extrinsics |-> <<>>, txs_count |-> 0]

\* the seed of the inherent data: the author's VRF signature over the
\* parent's seed
create_inherents(b) == vrf_sign(AuthorKey, block_seed(b.api))

\* a record_without_commiting_changes that keeps the changes, as
\* push_with_api does
RecordAndCommit(b, xt) ==
    LET r == apply_extrinsic(b.api, xt, block_number(b.api))
    IN  IF r.res = "ok"
        THEN [res |-> "ok", b |-> [b EXCEPT !.api = r.st, !.extrinsics = Append(@, xt)]]
        ELSE [res |-> r.res, b |-> b]

\* BlockBuilder::record_without_commiting_changes: the extrinsic is applied
\* in a storage transaction that is rolled back in every case; on success it
\* is recorded
record_without_commiting_changes(b, xt) ==
    LET r == apply_extrinsic(b.api, xt, block_number(b.api))
    IN  IF r.res = "ok"
        THEN [res |-> "ok", b |-> [b EXCEPT !.extrinsics = Append(@, xt)]]
        ELSE [res |-> r.res, b |-> b]

\* validate_transaction: validation in a sandbox over the builder's storage
validate_transaction(api, xt) ==
    LET r == record_without_commiting_changes(
                 [api |-> api, extrinsics |-> <<>>, txs_count |-> 0], xt)
    IN  [res |-> r.res, api |-> r.b.api]

\* the replay loop: while the limit allows and half of the weight budget is
\* not exceeded, a transaction is popped and applied; its changes are kept
\* if it succeeds.  A transaction that decodes goes into the body.
RECURSIVE ReplayLoop(_, _)
ReplayLoop(b, limit) ==
    LET p == pop_tx(b.api)
        d == Decode(p.data)
        r == apply_extrinsic(p.st, d.xt, p.nr)
    IN  IF limit = 0 \/ ~p.some \/ 2 * b.api.weight > MaxBlockWeight THEN b
        ELSE ReplayLoop(
                 [api |-> IF d.ok /\ r.res = "ok" THEN r.st ELSE p.st,
                  extrinsics |-> IF d.ok THEN Append(b.extrinsics, d.xt) ELSE b.extrinsics,
                  txs_count |-> b.txs_count + 1],
                 limit - 1)

\* BlockBuilder::apply_previous_block_extrinsics: the seed is stored (which
\* shuffles the batch of the previous block), then the queue is replayed;
\* limit is where the time and size budget of the phase ends
apply_previous_block_extrinsics(b, seed, limit) ==
    ReplayLoop([b EXCEPT !.api = set_block_seed(@, seed.seed)], limit)

\* the loop of propose_with over the ready transactions.  acc is
\* [api, valid_txs, skipped, reported, unqueue_invalid, end_reason].
RECURSIVE PoolLoop(_, _, _)
PoolLoop(pending, past_soft_deadline, acc) ==
    IF pending = <<>> THEN [acc EXCEPT !.end_reason = "NoMoreTransactions"]
    ELSE LET xt   == Head(pending)
             who  == get_signer(xt)
             v    == validate_transaction(acc.api, xt)
             seen == [acc EXCEPT !.reported = Append(@, xt)]
         IN  IF v.res = "ok"
             THEN PoolLoop(Tail(pending), past_soft_deadline,
                           [acc EXCEPT !.api = v.api,
                                       !.valid_txs = Append(@, <<who, Encode(xt)>>)])
             ELSE IF exhausted_resources(v.res)
             THEN IF acc.skipped < MAX_SKIPPED_TRANSACTIONS
                  THEN PoolLoop(Tail(pending), past_soft_deadline,
                                [seen EXCEPT !.skipped = @ + 1])
                  ELSE IF ~past_soft_deadline
                  THEN PoolLoop(Tail(pending), past_soft_deadline, seen)
                  ELSE [seen EXCEPT !.end_reason = "HitBlockWeightLimit"]
             ELSE IF acc.skipped > 0
             THEN PoolLoop(Tail(pending), past_soft_deadline, seen)
             ELSE PoolLoop(Tail(pending), past_soft_deadline,
                           [seen EXCEPT !.unqueue_invalid = Append(@, xt)])

\* BlockBuilder::build_with_seed: the enqueue inherent made of the valid
\* transactions is applied and pushed, the block is finalized, the header
\* gets the roots, the seed and the count
build_with_seed(b, seed, valid_txs) ==
    LET inherent == EnqueueXt(valid_txs)
        r        == apply_extrinsic(b.api, inherent, block_number(b.api))
        body     == IF r.res = "ok" THEN Append(b.extrinsics, inherent) ELSE b.extrinsics
        final    == system_finalize(IF r.res = "ok" THEN r.st ELSE b.api)
    IN  [block |-> [header |-> [number |-> block_number(b.api),
                                count |-> b.txs_count,
                                seed |-> seed,
                                extrinsics_root |-> ExtrinsicsRoot(body),
                                state_root |-> StateRoot(final),
                                digest |-> final.digest],
                    extrinsics |-> body],
         api |-> final]

\* Proposer::propose_with: the proposal and what the proposer did on the way
Proposal(replayed, drained, built) ==
    [block |-> built.block,
     trail |-> [replayed |-> replayed.api, drained |-> drained.api,
                valid_txs |-> drained.valid_txs,
                unqueue_invalid |-> drained.unqueue_invalid,
                end_reason |-> drained.end_reason,
                final |-> built.api]]

\* propose_with from build_with_seed on: drained is what the loop over the
\* pool left
ProposeAfterPool(replayed, drained, seed) ==
    Proposal(replayed, drained,
             build_with_seed([replayed EXCEPT !.api = drained.api], seed,
                             drained.valid_txs))

\* propose_with from the loop over the pool on: replayed is the builder
\* after apply_previous_block_extrinsics
ProposeAfterReplay(replayed, seed, pool, past_soft_deadline) ==
    ProposeAfterPool(replayed,
        PoolLoop(pool, past_soft_deadline,
            [api |-> replayed.api, valid_txs |-> <<>>, skipped |-> 0,
             reported |-> <<>>, unqueue_invalid |-> <<>>,
             end_reason |-> "NoMoreTransactions"]),
        seed)

propose_with(parent, pool, limit, past_soft_deadline) ==
    LET block_builder == new_block_at(parent)
        seed          == create_inherents(block_builder)
    IN  ProposeAfterReplay(apply_previous_block_extrinsics(block_builder, seed, limit),
                           seed, pool, past_soft_deadline)

(***************************************************************************)
(* One call of Proposer::propose_with, step by step.  The clock is the     *)
(* injected function now: every read returns the last value or a later     *)
(* one.  A pending transaction is known by its position in what the ready  *)
(* iterator has handed out (its hash) and by its kind.                     *)
(***************************************************************************)
MaxInherents == 2
MaxPool == 11
MaxRuns == 2

\* what the clock may advance by between two reads, and where it stops
Ticks == {0, 4}
MaxClock == 12

\* the deadline handed to propose_with
Deadline == 8

\* DEFAULT_SOFT_DEADLINE_PERCENT
DEFAULT_SOFT_DEADLINE_PERCENT == 50

\* the size limit of the block, the estimated size of a block without
\* extrinsics, the length of a hash, the encoded size of a large transaction
BlockSizeLimit == 800
EstimatedEmptySize == 1
HashLen == 32
BigSize == 400

\* the kinds of pending transactions: valid and small, valid and large, one
\* whose validation exhausts the block's resources, one that is invalid
PoolTxs == {"good", "big", "heavy", "invalid"}

\* the outcomes of pushing an inherent
InherentOutcomes == {"ok", ExhaustsResources, BadMandatory, "other"}

\* pending_tx.data().encoded_size()
encoded_size(tx) == IF tx = "big" THEN BigSize ELSE 1

\* the result of validate_transaction on a pending transaction
validate_pending(tx) ==
    CASE tx = "heavy"   -> ExhaustsResources
      [] tx = "invalid" -> Stale
      [] OTHER          -> "ok"

\* propose_with is not running
PwIdle ==
    [pc |-> "idle", has_seed |-> FALSE, inherents |-> <<>>, pushed |-> 0,
     dropped |-> 0, error |-> "none", now |-> 0, soft_deadline |-> 0, t2 |-> 0,
     source |-> "none", block_size |-> 0, skipped |-> 0, pool |-> <<>>,
     validated |-> <<>>, valid_txs |-> <<>>, reported |-> <<>>,
     unqueue_invalid |-> <<>>, end_reason |-> "none", removed |-> <<>>]

\* a seed that is made up when the inherent data holds none
SeedMadeUpIfAbsent(has_seed) == "none"

\* sp_ver::extract_inherent_data, as create_inherents reports it: the error
\* when the inherent data holds no seed
extract_inherent_data(has_seed) ==
    IF has_seed THEN "none" ELSE "cannot read random seed from inherents data"

\* a policy that drops whatever inherent fails
DropEveryFailure(res) == IF res = "ok" THEN "pushed" ELSE "dropped"

\* what apply_inherents does with the result of pushing one inherent
inherent_policy(res) ==
    IF res = "ok" THEN "pushed"
    ELSE IF exhausted_resources(res) THEN "dropped"
    ELSE IF res = BadMandatory THEN "abort"
    ELSE "dropped"

\* the loop of apply_inherents over the results of the pushes
RECURSIVE PushInherents(_, _, _)
PushInherents(inherents, pushed, dropped) ==
    IF inherents = <<>>
    THEN [error |-> "none", pushed |-> pushed, dropped |-> dropped]
    ELSE IF inherent_policy(Head(inherents)) = "abort"
         THEN [error |-> Head(inherents), pushed |-> pushed, dropped |-> dropped]
    ELSE IF inherent_policy(Head(inherents)) = "pushed"
         THEN PushInherents(Tail(inherents), pushed + 1, dropped)
    ELSE PushInherents(Tail(inherents), pushed, dropped + 1)

\* Proposer::apply_inherents on the builder: the seed is read, the inherents
\* are pushed; an error ends propose_with.  The inherent data is used up.
AfterInherents(p, seed_error, pushes) ==
    IF seed_error # "none" THEN [p EXCEPT !.pc = "failed", !.error = seed_error]
    ELSE IF pushes.error # "none"
         THEN [p EXCEPT !.pc = "failed", !.error = pushes.error,
                        !.pushed = pushes.pushed, !.dropped = pushes.dropped,
                        !.inherents = <<>>]
    ELSE [p EXCEPT !.pc = "replay", !.pushed = pushes.pushed,
                   !.dropped = pushes.dropped, !.inherents = <<>>]

ApplyInherents ==
    /\ pw.pc = "start"
    /\ pw' = AfterInherents(pw, extract_inherent_data(pw.has_seed),
                            PushInherents(pw.inherents, 0, 0))
    /\ UNCHANGED <<sh_vars, storage, last, bb, vest>>

\* a timer that covers all the time left
WholeTimeLeft(left) == left

\* the timer the ready iterator is awaited against: an eighth of the time left
ready_timeout(left) == left \div 8

\* Instant::saturating_duration_since
saturating_duration_since(later, earlier) ==
    IF later > earlier THEN later - earlier ELSE 0

\* Percent::mul_floor
mul_floor(percent, x) == (percent * x) \div 100

\* propose_with from the replay of the queue to the select: the queue is
\* replayed, the first slot is slept out, the size counter is set to half
\* of the limit plus the empty block; now is read for the soft deadline and
\* read again for the timer
ReplayPreviousBlock ==
    /\ pw.pc = "replay"
    /\ \E now \in {pw.now + t : t \in Ticks}, again \in Ticks :
          pw' = [pw EXCEPT
                   !.pc = "select",
                   !.now = now + again,
                   !.block_size = BlockSizeLimit \div 2 + EstimatedEmptySize,
                   !.t2 = ready_timeout(saturating_duration_since(Deadline, now + again)),
                   !.soft_deadline =
                       now + mul_floor(DEFAULT_SOFT_DEADLINE_PERCENT,
                                       saturating_duration_since(Deadline, now))]
    /\ UNCHANGED <<sh_vars, storage, last, bb, vest>>

\* select!: ready_at(parent_number) resolves first
ReadyAtResolves ==
    /\ pw.pc = "select"
    /\ pw' = [pw EXCEPT !.pc = "loop", !.source = "ready_at"]
    /\ UNCHANGED <<sh_vars, storage, last, bb, vest>>

\* select!: the timer fires first and the proposer takes ready()
TimeoutFires ==
    /\ pw.pc = "select"
    /\ pw' = [pw EXCEPT !.pc = "loop", !.source = "ready"]
    /\ UNCHANGED <<sh_vars, storage, last, bb, vest>>

\* a deadline that is never reached
DeadlineNeverReached(now, deadline) == FALSE

\* the check of the deadline at the head of the loop
deadline_reached(now, deadline) == now > deadline

\* a policy that stops at the first transaction that does not fit
StopAtFirst(skipped, before_soft_deadline) == "stop"

\* a policy that never stops
NeverStop(skipped, before_soft_deadline) ==
    IF skipped < MAX_SKIPPED_TRANSACTIONS THEN "count" ELSE "continue"

\* what the loop does with a transaction that exceeds the size limit or
\* exhausts the resources: the skip is counted, or it is free, or the loop
\* ends
skip_policy(skipped, before_soft_deadline) ==
    IF skipped < MAX_SKIPPED_TRANSACTIONS THEN "count"
    ELSE IF before_soft_deadline THEN "continue"
    ELSE "stop"

\* every invalid transaction is put on the list
AlwaysUnqueue(skipped) == TRUE

\* an invalid transaction is put on the list for remove_invalid only while
\* nothing has been skipped
unqueues_invalid(skipped) == ~(skipped > 0)

\* the loop after a skip: p has the transaction reported
AfterSkip(p, policy, reason) ==
    CASE policy = "count"    -> [p EXCEPT !.skipped = @ + 1]
      [] policy = "continue" -> p
      [] OTHER               -> [p EXCEPT !.pc = "build", !.end_reason = reason]

\* the match on the result of validate_transaction; again is what the clock
\* returns if it is read once more
AfterValidate(p, id, res, again) ==
    IF res = "ok" THEN [p EXCEPT !.valid_txs = Append(@, id)]
    ELSE IF exhausted_resources(res)
    THEN AfterSkip([p EXCEPT !.reported = Append(@, id),
                             !.now = IF p.skipped < MAX_SKIPPED_TRANSACTIONS
                                     THEN @ ELSE again],
                   skip_policy(p.skipped, again < p.soft_deadline),
                   "HitBlockWeightLimit")
    ELSE IF unqueues_invalid(p.skipped)
    THEN [p EXCEPT !.reported = Append(@, id), !.unqueue_invalid = Append(@, id)]
    ELSE [p EXCEPT !.reported = Append(@, id)]

\* a loop that validates the transaction whatever the size counter holds
AfterSizeUnchecked(p, tx, id, again) ==
    AfterValidate([p EXCEPT !.validated = Append(@, id)], id,
                  validate_pending(tx), again)

\* the body of the loop from the size check on: p has the size of the
\* transaction added to block_size
AfterSizeAdded(p, tx, id, again) ==
    IF p.block_size > BlockSizeLimit
    THEN AfterSkip([p EXCEPT !.reported = Append(@, id)],
                   skip_policy(p.skipped, p.now < p.soft_deadline),
                   "HitBlockSizeLimit")
    ELSE AfterValidate([p EXCEPT !.validated = Append(@, id)], id,
                       validate_pending(tx), again)

\* one pass of the loop for the pending transaction tx: p has tx taken from
\* the iterator and the clock read
LoopBody(p, tx, again) ==
    IF deadline_reached(p.now, Deadline)
    THEN [p EXCEPT !.pc = "build", !.end_reason = "HitDeadline"]
    ELSE AfterSizeAdded([p EXCEPT !.block_size = @ + encoded_size(tx) + HashLen],
                        tx, Len(p.pool), again)

\* the number of runs of equal kinds in what the iterator handed out
Runs(pool) ==
    Cardinality({i \in DOMAIN pool : i = 1 \/ pool[i] # pool[i - 1]})

\* the ready iterator has nothing more
PoolExhausted ==
    /\ pw.pc = "loop"
    /\ pw' = [pw EXCEPT !.pc = "build", !.end_reason = "NoMoreTransactions"]
    /\ UNCHANGED <<sh_vars, storage, last, bb, vest>>

\* the ready iterator hands out one more transaction
PoolStep ==
    /\ pw.pc = "loop"
    /\ Len(pw.pool) < MaxPool
    /\ \E tx \in PoolTxs, tick \in Ticks, again \in Ticks :
          /\ Runs(Append(pw.pool, tx)) <= MaxRuns
          /\ pw.now + tick + again <= MaxClock
          /\ pw' = LoopBody([pw EXCEPT !.pool = Append(@, tx), !.now = @ + tick],
                            tx, pw.now + tick + again)
    /\ UNCHANGED <<sh_vars, storage, last, bb, vest>>

\* propose_with after the loop: the block is built with the enqueue
\* inherent of the valid transactions, the invalid ones are handed to
\* remove_invalid, the proposal is returned
BuildProposal ==
    /\ pw.pc = "build"
    /\ pw' = [pw EXCEPT !.pc = "built", !.removed = pw.unqueue_invalid]
    /\ UNCHANGED <<sh_vars, storage, last, bb, vest>>

\* Option<Vec<Extrinsic>>
None == [some |-> FALSE, v |-> <<>>]
Some(v) == [some |-> TRUE, v |-> v]

\* no block builder is open
BbIdle ==
    [pc |-> "off", body |-> None, api |-> Genesis, extrinsics |-> <<>>,
     previous_block_extrinsics |-> None, applied_previous |-> FALSE,
     attempts |-> <<>>, op |-> [name |-> "none", xt |-> EnqueueXt(<<>>), res |-> "ok"],
     seed |-> 0, digest |-> None]

\* the vesting pallet is not called
VestIdle == [pc |-> "off"]

(***************************************************************************)
(* The chain as a state machine                                            *)
(***************************************************************************)
NoBlock == MakeBlock(0, 0, vrf_sign(AuthorKey, 0), <<>>)

\* what a proposer leaves behind when the block was not proposed here
NoTrail ==
    [replayed |-> Genesis, drained |-> Genesis, valid_txs |-> <<>>,
     unqueue_invalid |-> <<>>, end_reason |-> "NoMoreTransactions", final |-> Genesis]

NoImport ==
    [kind |-> "none", block |-> NoBlock, public |-> NoKey, pre |-> Genesis,
     panic |-> NoPanic, work |-> Genesis, trail |-> NoTrail]

\* a host that keeps the working storage of every block, rejected or not
CommitAlways(kind, proposal, public, r) ==
    /\ last' = [kind |-> kind, block |-> proposal.block, public |-> public,
                pre |-> storage, panic |-> r.panic, work |-> r.st,
                trail |-> proposal.trail]
    /\ storage' = r.st

\* the host imports the block: the storage of an accepted block is
\* committed, the changes of a block whose execution panicked are discarded
Commit(kind, proposal, public, r) ==
    /\ last' = [kind |-> kind, block |-> proposal.block, public |-> public,
                pre |-> storage, panic |-> r.panic, work |-> r.st,
                trail |-> proposal.trail]
    /\ storage' = IF r.panic = NoPanic THEN r.st ELSE storage

\* proposal is [block, trail]: the block and what its proposer did on the way
Import(kind, proposal, public) ==
    Commit(kind, proposal, public,
           execute_block_ver_impl(storage, proposal.block, public))

\* A behaviour follows a chain of accepted blocks and ends with the first
\* rejected one: a rejection leaves the storage as it was (Import), so the
\* blocks that could follow it are the blocks that could have come instead.
CanImport ==
    /\ sh_phase = "off"
    /\ storage.number < MaxBlocks
    /\ last.panic = NoPanic

\* a defective block carries no batch of its own, except for the one whose
\* defect is the batch
ImportForeign ==
    /\ CanImport
    /\ \E count \in 0 .. (QueueSize(storage) + 1), batch \in Batches,
          has_batch \in BOOLEAN, defect \in Defects :
            /\ has_batch \/ batch = <<>>
            /\ has_batch = (defect \in {"none", "double_enqueue"}) \/ defect = "none"
            /\ Import("foreign",
                      [block |-> ForeignBlock(storage, count, batch, has_batch, defect),
                       trail |-> NoTrail],
                      PublicOf(defect))
    /\ UNCHANGED <<sh_vars, pw, bb, vest>>

\* the node proposes a block on its best block and imports it
AuthorBlock ==
    /\ CanImport
    /\ \E pool \in Pools, limit \in 0 .. QueueSize(storage), past_soft_deadline \in BOOLEAN :
            Import("authored", propose_with(storage, pool, limit, past_soft_deadline),
                   AuthorKey)
    /\ UNCHANGED <<sh_vars, pw, bb, vest>>

\* what a queued payload may be overwritten with: bytes that are no
\* extrinsic, or an extrinsic whose signature does not verify
CorruptPayloads == {Garbage, Encode(SignedXt(1, 0, FALSE))}

\* a payload of the entry enqueued last is overwritten in storage before the
\* next block pops it
CorruptQueue ==
    /\ CanImport
    /\ storage.queue # <<>>
    /\ \A i \in DOMAIN storage.queue[Len(storage.queue)].txs :
           storage.queue[Len(storage.queue)].txs[i][2] \notin CorruptPayloads
    /\ \E i \in DOMAIN storage.queue[Len(storage.queue)].txs, bytes \in CorruptPayloads :
           storage' = [storage EXCEPT !.queue[Len(storage.queue)].txs[i][2] = bytes]
    /\ UNCHANGED last
    /\ UNCHANGED <<sh_vars, pw, bb, vest>>

Init ==
    /\ sh_input = <<>>
    /\ sh_seed = ZeroSeed
    /\ sh_run = NoRun
    /\ sh_phase = "off"
    /\ storage = Genesis
    /\ last = NoImport
    /\ pw = PwIdle
    /\ bb = BbIdle
    /\ vest = VestIdle

Next == ImportForeign \/ AuthorBlock \/ CorruptQueue

Spec == Init /\ [][Next]_vars

(***************************************************************************)
(* The shuffler as a state machine: the inputs are drawn, then the call is *)
(* made.                                                                   *)
(***************************************************************************)

\* an extrinsic of the shuffler checks is <<signer, its position in the input>>,
\* so that every element of a list is distinct and its signer can be read back
ShInputOf(whos) == [i \in DOMAIN whos |-> <<whos[i], <<whos[i], i>>>>]

ShInputs == UNION {{ShInputOf(w) : w \in [1 .. n -> Signers]} : n \in 0 .. MaxLen}

InitShuffle ==
    /\ sh_input \in ShInputs
    /\ sh_seed \in Seeds
    /\ sh_run = NoRun
    /\ sh_phase = "ready"
    /\ storage = Genesis
    /\ last = NoImport
    /\ pw = PwIdle
    /\ bb = BbIdle
    /\ vest = VestIdle

CallShuffle ==
    /\ sh_phase = "ready"
    /\ sh_run' = ShuffleRun(sh_input, sh_seed)
    /\ sh_phase' = "done"
    /\ UNCHANGED <<sh_input, sh_seed>>
    /\ UNCHANGED <<chain_vars, bb, vest>>

NextShuffle == CallShuffle

SpecShuffle == InitShuffle /\ [][NextShuffle]_vars

(***************************************************************************)
(* propose_with as a state machine: the inherent data and the results of   *)
(* the inherents are drawn, then the call runs step by step.               *)
(***************************************************************************)
InitPropose ==
    /\ sh_input = <<>>
    /\ sh_seed = ZeroSeed
    /\ sh_run = NoRun
    /\ sh_phase = "off"
    /\ storage = Genesis
    /\ last = NoImport
    /\ bb = BbIdle
    /\ vest = VestIdle
    /\ \E has_seed \in BOOLEAN, inherents \in SeqsUpTo(InherentOutcomes, MaxInherents) :
          pw = [PwIdle EXCEPT !.pc = "start", !.has_seed = has_seed,
                              !.inherents = inherents]

NextPropose ==
    \/ ApplyInherents
    \/ ReplayPreviousBlock
    \/ ReadyAtResolves
    \/ TimeoutFires
    \/ PoolStep
    \/ PoolExhausted
    \/ BuildProposal

SpecPropose == InitPropose /\ [][NextPropose]_vars

\* the timer of the select fires, an iterator that hands out nothing more is
\* noticed, the block is built: the steps that do not wait for anything
\* outside the proposer
SpecProposeFair ==
    /\ SpecPropose
    /\ WF_vars(ApplyInherents)
    /\ WF_vars(ReplayPreviousBlock)
    /\ WF_vars(TimeoutFires)
    /\ WF_vars(PoolStep \/ PoolExhausted)
    /\ WF_vars(BuildProposal)

(***************************************************************************)
(* Properties of the shuffler (checked under SpecShuffle)                  *)
(***************************************************************************)
ShDone == sh_phase = "done"

\* the elements handed in, in input order
ShInputTxs == [i \in DOMAIN sh_input |-> sh_input[i][2]]

\* the signers present in the input
ShSignersOf(input) == {input[i][1] : i \in DOMAIN input}

\* the number of elements of the signer of position p at positions <= p: the
\* element at p is the Rank-th payload of its signer
ShRank(input, p) ==
    Cardinality({q \in 1 .. p : input[q][1] = input[p][1]})

\* the number of elements that belong to rounds before round k
ShOffset(input, k) ==
    Cardinality({p \in DOMAIN input : ShRank(input, p) < k})

\* C4: the elements of one signer (None included) appear in the output in the
\* order they had in the input: if p is before q in the input and both have
\* the same signer, then the element of p is before the element of q in the
\* output.
C4_SignerOrderPreserved ==
    ShDone =>
        \A p, q \in DOMAIN sh_input :
            (p < q /\ sh_input[p][1] = sh_input[q][1]) =>
                \E m, n \in DOMAIN sh_run.slots :
                    /\ m < n
                    /\ sh_run.slots[m] = sh_input[p][2]
                    /\ sh_run.slots[n] = sh_input[q][2]

\* a run over three signers, None with two elements, whose output order
\* differs from the input order
C4_Witness ==
    /\ ShDone
    /\ Len(sh_input) = MaxLen
    /\ ShSignersOf(sh_input) = Signers
    /\ Cardinality({p \in DOMAIN sh_input : sh_input[p][1] = NoneSigner}) >= 2
    /\ sh_run.slots # ShInputTxs

\* C5: the output is a permutation of the input: it has the same length and
\* every element occurs in it as often as in the input.
C5_OutputIsPermutation ==
    ShDone =>
        /\ Len(sh_run.slots) = Len(sh_input)
        /\ \A i \in DOMAIN sh_input :
               Cardinality({m \in DOMAIN sh_run.slots : sh_run.slots[m] = sh_input[i][2]})
                   = Cardinality({p \in DOMAIN sh_input : sh_input[p][2] = sh_input[i][2]})

\* a run in which a swap moved elements of a round of three
C5_Witness ==
    /\ ShDone
    /\ Len(sh_input) >= 3
    /\ \E k \in DOMAIN sh_run.swaps : sh_run.swaps[k].i = 2
    /\ sh_run.slots # ShInputTxs

\* C6: a list of at least three elements of at least two signers is not
\* shuffled to the same output by all seeds.
ShNonTrivial(input) ==
    Len(input) >= 3 /\ Cardinality(ShSignersOf(input)) >= 2

C6_SeedSensitive ==
    (ShDone /\ ShNonTrivial(sh_input)) =>
        \E s1, s2 \in Seeds :
            shuffle_using_seed(sh_input, s1) # shuffle_using_seed(sh_input, s2)

\* C7: every swap of a round draws its partner j from the inclusive range
\* 0 .. i, as random modulo (i + 1), so that j = i can be drawn.
C7_PartnerInclusiveRange ==
    ShDone =>
        \A k \in DOMAIN sh_run.swaps :
            /\ sh_run.swaps[k].i >= 1
            /\ sh_run.swaps[k].j \in 0 .. sh_run.swaps[k].i
            /\ sh_run.swaps[k].j = ModWord(sh_run.swaps[k].random, sh_run.swaps[k].i + 1)

\* C8: round k occupies the slice after the elements of the rounds before it,
\* its length is the number of signers with at least k elements, and its set
\* of elements is the k-th element of each such signer.
C8_RoundStructure ==
    ShDone =>
        /\ Len(sh_run.slots) = Len(sh_input)
        /\ \A k \in 1 .. Len(sh_input) :
               /\ ShOffset(sh_input, k + 1) - ShOffset(sh_input, k)
                      = Cardinality({a \in ShSignersOf(sh_input) :
                            Cardinality({p \in DOMAIN sh_input : sh_input[p][1] = a}) >= k})
               /\ {sh_run.slots[m] : m \in (ShOffset(sh_input, k) + 1) .. ShOffset(sh_input, k + 1)}
                      = {sh_input[p][2] : p \in {q \in DOMAIN sh_input : ShRank(sh_input, q) = k}}

\* a run with a first round of three elements and a second round of one,
\* from an input that is not laid out round by round
C8_Witness ==
    /\ ShDone
    /\ sh_run.rounds = <<3, 1>>
    /\ sh_input[1][1] = sh_input[2][1]
    /\ sh_run.slots # ShInputTxs

(***************************************************************************)
(* Properties of the verifier (checked under Spec)                         *)
(***************************************************************************)
Imported == last.kind # "none"

Accepted == Imported /\ last.panic = NoPanic

LastHeader == last.block.header

\* the header's seed and proof verify under the supplied key against the
\* seed stored by the parent
LastSeedVerifies ==
    vrf_verify(last.public, block_seed(last.pre), LastHeader.seed.seed, LastHeader.seed.proof)

\* C9: a block whose seed/proof does not verify, under the supplied key,
\* against the seed stored by the previously accepted block is rejected with
\* a seed fault and leaves the committed storage as it was; whenever the
\* working storage holds another seed than the parent's, the verification
\* had succeeded.
C9_SeedVerification ==
    Imported =>
        /\ ~LastSeedVerifies =>
              /\ last.panic \in {CannotBuildPublic, SeedVerificationFailed}
              /\ storage = last.pre
        /\ block_seed(last.work) # block_seed(last.pre) => LastSeedVerifies
        /\ Accepted => block_seed(storage) = LastHeader.seed.seed

\* a block on top of an accepted block whose proof was made over another
\* seed than the stored one, and which is rejected for it
C9_Witness ==
    /\ last.kind = "foreign"
    /\ last.pre.number >= 1
    /\ block_seed(last.pre) # block_seed(Genesis)
    /\ last.public = AuthorKey
    /\ LastHeader.seed.proof[1] = AuthorKey
    /\ ~LastSeedVerifies
    /\ last.panic = SeedVerificationFailed

\* the checks that precede the pop pass on the last block
LastReachesPop ==
    LET s_init == initialize_block(last.pre, LastHeader)
    IN  /\ ver_checks(s_init, last.block, last.public) = NoPanic
        /\ initial_checks(set_block_seed(s_init, LastHeader.seed.seed), last.block) = NoPanic

\* the transactions of the batch the last block enqueued itself
LastNewBatchSize(st) ==
    IF st.queue # <<>> /\ st.queue[Len(st.queue)].nr = LastHeader.number
    THEN Len(st.queue[Len(st.queue)].txs) ELSE 0

\* C10: an accepted block has popped exactly header.count transactions (the
\* queue shrinks by count, apart from the batch the block enqueues); a block
\* whose count exceeds the transactions in the queue is never accepted, and
\* if it reaches the pop it is rejected with "not enought elements to pop
\* found".
C10_PopExactlyCount ==
    Imported =>
        /\ Accepted =>
              /\ LastHeader.count <= QueueSize(last.pre)
              /\ QueueSize(storage) - LastNewBatchSize(storage)
                     = QueueSize(last.pre) - LastHeader.count
        /\ LastHeader.count > QueueSize(last.pre) =>
              /\ ~Accepted
              /\ storage = last.pre
              /\ LastReachesPop => last.panic = NotEnoughToPop

\* a block that declares one transaction more than the non-empty queue
\* holds, reaches the pop and is rejected there
C10_Witness ==
    /\ Imported
    /\ QueueSize(last.pre) >= 1
    /\ LastHeader.count = QueueSize(last.pre) + 1
    /\ LastReachesPop
    /\ last.panic = NotEnoughToPop

\* the sum of the account nonces: the number of transactions applied so far
NonceSum(st) ==
    Cardinality({p \in Accounts \X (1 .. MaxNonce) : p[2] <= st.nonces[p[1]]})

\* the payloads waiting in the queue
BytesQueued(st) ==
    UNION {{st.queue[e].txs[i][2] : i \in DOMAIN st.queue[e].txs} : e \in DOMAIN st.queue}

\* C1: no transaction of the batch block N enqueues is executed in block N.
\* Verifier: every transaction executed while block N is verified was
\* enqueued by a block before N and was waiting in the parent's queue, the
\* account nonces advance by the executed transactions only, and the batch
\* enqueued by N sits in the queue untouched (not shuffled, cursor at 0).
\* Builder: validating the pool leaves the builder's storage as the replay
\* left it, so the proposed state carries the replayed transactions only.
C1_DeferredExecution ==
    Imported =>
        /\ \A i \in DOMAIN last.work.executed :
              /\ last.work.executed[i][2] < LastHeader.number
              /\ last.work.executed[i][1] \in BytesQueued(last.pre)
        /\ NonceSum(last.work) - NonceSum(last.pre) = Len(last.work.executed)
        /\ \A e \in DOMAIN last.work.queue :
              last.work.queue[e].nr = LastHeader.number =>
                  /\ e = Len(last.work.queue)
                  /\ last.work.queue[e].index = 0
                  /\ ~last.work.queue[e].shuffled
        /\ last.kind = "authored" =>
              /\ last.trail.drained = last.trail.replayed
              /\ last.trail.final.nonces = last.trail.replayed.nonces
              /\ last.trail.final.executed = last.trail.replayed.executed

\* the node proposes block 2: it replays a transaction that block 1 enqueued
\* and stages a pool transaction of its own, and the block is accepted
C1_Witness ==
    /\ last.kind = "authored"
    /\ Accepted
    /\ LastHeader.number = 2
    /\ LastHeader.count >= 1
    /\ last.work.executed # <<>>
    /\ last.trail.valid_txs # <<>>
    /\ LastNewBatchSize(storage) = Len(last.trail.valid_txs)

\* what pop_txs returns for the last block: header.count transactions popped
\* from the parent's queue after the header's seed is stored
LastPop ==
    pop_txs(set_block_seed(initialize_block(last.pre, LastHeader), LastHeader.seed.seed),
            LastHeader.count)

\* the popped transactions that decode, in the order they were popped
LastPoppedTxs == XtsOf(DecodeFilter(LastPop.elems))

\* the signed extrinsics of the last block's body, in body order
LastSignedBody == SelectSeq(last.block.extrinsics, is_signed)

\* the last block passes every check that precedes the comparison of its
\* body with the popped transactions
LastReachesBodyCheck ==
    /\ LastReachesPop
    /\ Len(LastPop.elems) = LastHeader.count

\* C11: an accepted block's signed extrinsics are exactly the transactions
\* popped from the queue for it, in the same order; a block whose signed
\* extrinsics differ from them (one missing, one extra, reordered) is
\* rejected, the committed storage stays as it was, and if the block reaches
\* the comparison the rejection is the failed assertion on the body.
C11_OrderingReconciliation ==
    Imported =>
        /\ Accepted => LastSignedBody = LastPoppedTxs
        /\ LastSignedBody # LastPoppedTxs =>
              /\ ~Accepted
              /\ storage = last.pre
              /\ LastReachesBodyCheck => last.panic = AssertionFailed

\* a block whose body holds the two popped transactions in the opposite
\* order: the same elements, reordered, and the block is rejected for it
C11_Witness ==
    /\ Imported
    /\ LastReachesBodyCheck
    /\ Len(LastPoppedTxs) = 2
    /\ LastPoppedTxs[1] # LastPoppedTxs[2]
    /\ LastSignedBody = Reverse(LastPoppedTxs)
    /\ last.panic = AssertionFailed

\* the block on top of st that an honest collator seals when it pops count
\* transactions and enqueues nothing
PlainBlock(st, count) == ForeignBlock(st, count, <<>>, FALSE, "none")

\* the positions of the popped payloads that do not decode
LastGarbledPops == {i \in DOMAIN LastPop.elems : ~Decode(LastPop.elems[i].data).ok}

\* the last block reached the pop and popped a payload that does not decode
LastPoppedGarbage == LastReachesBodyCheck /\ LastGarbledPops # {}

\* the next honest block, popping one transaction if the queue holds any,
\* is accepted on top of the committed storage
NextImportsNormally ==
    execute_block_ver_impl(storage,
        PlainBlock(storage, IF QueueSize(storage) > 0 THEN 1 ELSE 0), AuthorKey).panic = NoPanic

\* C12: when a popped payload does not decode the verifier does not panic on
\* it (a decoding fault can only come from the batch the block enqueues
\* itself): the payload counts toward header.count but is neither compared with
\* the body nor executed, the honest block whose body omits it is accepted,
\* and the block after it is accepted as well.
C12_GarbledQueueEntry ==
    (Imported /\ LastPoppedGarbage) =>
        /\ last.panic = CannotDeserialize => LastNewBatchSize(last.work) > 0
        /\ Len(LastPoppedTxs) = LastHeader.count - Cardinality(LastGarbledPops)
        /\ Len(last.work.executed) <= Len(LastPoppedTxs)
        /\ \A i \in DOMAIN last.work.executed : last.work.executed[i][1] # Garbage
        /\ Accepted => Len(LastSignedBody) = LastHeader.count - Cardinality(LastGarbledPops)
        /\ (last.public = AuthorKey /\ last.block = PlainBlock(last.pre, LastHeader.count)) =>
              /\ Accepted
              /\ NextImportsNormally

\* block 1 enqueues two transactions, one payload is overwritten in storage,
\* block 2 pops both, carries the one that decodes in its body and is accepted
C12_Witness ==
    /\ Imported
    /\ LastPoppedGarbage
    /\ LastHeader.count = 2
    /\ Len(LastSignedBody) = 1
    /\ Len(last.work.executed) = 1
    /\ last.block = PlainBlock(last.pre, LastHeader.count)
    /\ Accepted
    /\ NextImportsNormally

\* the honest block that pops count transactions on top of the committed
\* storage is accepted and leaves the queue shorter by count
DrainsBy(count) ==
    /\ execute_block_ver_impl(storage, PlainBlock(storage, count), AuthorKey).panic = NoPanic
    /\ QueueSize(execute_block_ver_impl(storage, PlainBlock(storage, count), AuthorKey).st)
           = QueueSize(storage) - count

\* the payloads waiting in the committed queue, from the cursor on
WaitingPayloads ==
    UNION {{storage.queue[e].txs[i][2] :
                i \in (storage.queue[e].index + 1) .. Len(storage.queue[e].txs)} :
           e \in DOMAIN storage.queue}

\* the front payload of the committed queue would not apply now: it does not
\* decode, or its application fails
FrontWouldFail ==
    /\ storage.queue # <<>>
    /\ \/ ~Decode(pop_tx(storage).data).ok
       \/ apply_extrinsic(system_initialize(storage, storage.number + 1),
                          Decode(pop_tx(storage).data).xt, storage.number).res # "ok"

RECURSIVE ReplayResults(_, _)
ReplayResults(st, txs) ==
    IF txs = <<>> THEN <<>>
    ELSE <<apply_extrinsic(st, Head(txs), 0).res>>
             \o ReplayResults(apply_extrinsic(st, Head(txs), 0).st, Tail(txs))

\* the results of the transactions the last block popped
LastReplayResults == ReplayResults(LastPop.st, LastPoppedTxs)

\* the faults of a signed transaction that are no resource exhaustion
OrdinaryFaults == {BadProof, Stale, Future}

\* the panic of the honest block that pops the whole committed queue
DrainAllPanic ==
    execute_block_ver_impl(storage, PlainBlock(storage, QueueSize(storage)), AuthorKey).panic

\* the results of the transactions that block would pop
DrainAllResults ==
    ReplayResults(
        pop_txs(set_block_seed(system_initialize(storage, storage.number + 1),
                               vrf_output(AuthorKey, block_seed(storage))),
                QueueSize(storage)).st,
        PlainBlock(storage, QueueSize(storage)).extrinsics)

\* C14 as claimed: a replayed transaction that fails, for whatever reason,
\* never makes the verifier reject the block: no import ends with the fault
\* of a transaction it replayed, and the honest block that pops the whole
\* queue is accepted.
C14_AnyFailureTolerated ==
    /\ Imported => \A i \in DOMAIN LastReplayResults : last.panic # LastReplayResults[i]
    /\ (sh_phase = "off" /\ last.panic = NoPanic) => DrainAllPanic = NoPanic

\* C14, amended: a replayed transaction that fails for a reason other than
\* resource exhaustion (bad signature, bad nonce) never makes the verifier
\* reject the block, and the transactions after it are executed; a replayed
\* transaction that would exhaust the block limits makes it reject the
\* block with that fault.
C14_ReplayFailureTolerated ==
    /\ Imported =>
          /\ last.panic \notin OrdinaryFaults
          /\ Accepted =>
                Len(last.work.executed)
                    = Cardinality({i \in DOMAIN LastReplayResults : LastReplayResults[i] = "ok"})
    /\ (sh_phase = "off" /\ last.panic = NoPanic) =>
          DrainAllPanic =
              IF \E i \in DOMAIN DrainAllResults : DrainAllResults[i] = ExhaustsResources
              THEN ExhaustsResources ELSE NoPanic

\* a block pops two transactions; the first fails on its nonce, the second
\* is executed, and the block is accepted
C14_Witness ==
    /\ Accepted
    /\ Len(LastPoppedTxs) = 2
    /\ LastReplayResults[1] \in {Stale, Future}
    /\ LastReplayResults[2] = "ok"
    /\ Len(last.work.executed) = 1

\* the enqueue_txs inherents of the last block's body
LastEnqueueCalls ==
    SelectSeq(last.block.extrinsics, LAMBDA xt : xt.kind = "enqueue")

\* the last block passes every check that precedes the execution of its
\* extrinsics
LastReachesExecution ==
    /\ LastReachesBodyCheck
    /\ LastSignedBody = LastPoppedTxs
    /\ Len(LastSignedBody) > 0 => (LastPop.st.queue = <<>> \/ LastHeader.count > 0)

\* the entries of a queue that were enqueued by block nr
EntriesOf(st, nr) == {e \in DOMAIN st.queue : st.queue[e].nr = nr}

\* C15: a block whose body calls enqueue_txs twice is rejected, with the
\* "only once per block" fault if it reaches the execution, and the
\* committed storage stays as it was; after an accepted block the queue
\* holds at most one entry for the block's number.
C15_EnqueueOncePerBlock ==
    Imported =>
        /\ Len(LastEnqueueCalls) >= 2 =>
              /\ ~Accepted
              /\ storage = last.pre
              /\ LastReachesExecution => last.panic = AlreadyEnqueued
        /\ Accepted =>
              /\ Len(LastEnqueueCalls) <= 1
              /\ Cardinality(EntriesOf(storage, LastHeader.number)) <= 1
              /\ \A nr \in 1 .. MaxBlocks : Cardinality(EntriesOf(storage, nr)) <= 1

\* block 2 pops a transaction and calls enqueue_txs twice with a batch: it
\* is rejected with the "only once per block" fault
C15_Witness ==
    /\ Imported
    /\ LastHeader.number = 2
    /\ LastHeader.count >= 1
    /\ Len(LastEnqueueCalls) = 2
    /\ LastEnqueueCalls[1].txs # <<>>
    /\ LastReachesExecution
    /\ last.panic = AlreadyEnqueued
    /\ storage = last.pre

\* the batch the last block hands to enqueue_txs (its first call)
LastBatch == IF LastEnqueueCalls = <<>> THEN <<>> ELSE LastEnqueueCalls[1].txs

\* what the execution of the last block's extrinsics returns
LastExecution ==
    execute_extrinsics_with_book_keeping(LastPop.st,
        tx_to_be_executed(SelectSeq(last.block.extrinsics, IsInherent),
                          DecodeFilter(LastPop.elems), LastHeader.number))

\* the last block enqueues a batch and passes every check that precedes the
\* checks of that batch
LastReachesEnqueueChecks ==
    /\ LastReachesExecution
    /\ LastBatch # <<>>
    /\ LastExecution.panic = NoPanic
    /\ \/ enqueued_blocks_count(LastPop.st) = 0
       \/ LastHeader.count # 0

\* two entries of the batch carry the same payload
LastBatchRepeatsPayload ==
    \E i, j \in DOMAIN LastBatch : i # j /\ LastBatch[i][2] = LastBatch[j][2]

\* C16 as claimed: a block whose enqueue batch holds the same payload twice
\* is rejected, whatever signer is recorded next to each entry; if it
\* reaches the checks of the batch the fault is "only unique txs can be
\* passed into queue".
C16_UniquePayloads ==
    (Imported /\ LastBatchRepeatsPayload) =>
        /\ ~Accepted
        /\ LastReachesEnqueueChecks => last.panic = OnlyUniqueTxs

\* what the code enforces: a batch that holds the same (signer, payload)
\* pair twice is rejected with the uniqueness fault
C16_UniquePairs ==
    (Imported /\ \E i, j \in DOMAIN LastBatch : i # j /\ LastBatch[i] = LastBatch[j]) =>
        /\ ~Accepted
        /\ LastReachesEnqueueChecks => last.panic = OnlyUniqueTxs

\* the positions of the batch whose payload does not decode, and the ones
\* whose payload decodes to an extrinsic that fails the signature check
LastBatchGarbled == {i \in DOMAIN LastBatch : ~Decode(LastBatch[i][2]).ok}

LastBatchUnsigned ==
    {i \in DOMAIN LastBatch :
        Decode(LastBatch[i][2]).ok /\ check(Decode(LastBatch[i][2]).xt) # "ok"}

RECURSIVE LastBatchWeight(_)
LastBatchWeight(n) ==
    IF n = 0 THEN 0
    ELSE LastBatchWeight(n - 1) + TxWeight(Decode(LastBatch[n][2]).xt)

\* the first position at which the weight of the batch, summed from zero,
\* exceeds the block limit; 0 if the whole batch fits
LastBatchOverAt ==
    IF \A n \in DOMAIN LastBatch : LastBatchWeight(n) <= MaxBlockWeight THEN 0
    ELSE CHOOSE n \in DOMAIN LastBatch :
             /\ LastBatchWeight(n) > MaxBlockWeight
             /\ \A k \in 1 .. (n - 1) : LastBatchWeight(k) <= MaxBlockWeight

\* the last block reaches the weight check of its batch: the batch passes
\* the uniqueness assertion and decodes
LastReachesWeightCheck ==
    /\ LastReachesEnqueueChecks
    /\ \A i, j \in DOMAIN LastBatch : i # j => LastBatch[i] # LastBatch[j]
    /\ LastBatchGarbled = {}

\* C18: the weight of the enqueued batch is accumulated from zero (what the
\* block has consumed by executing popped transactions does not count), and
\* the block is rejected with "Transaction would exhaust the block limits"
\* at the first transaction with which the sum exceeds the block limit,
\* unless a transaction up to that one is badly signed.
C18_OverBudgetEnqueue ==
    /\ (Imported /\ LastReachesWeightCheck /\ LastBatchOverAt # 0) =>
          /\ ~Accepted
          /\ storage = last.pre
          /\ last.panic \in {ExhaustsResources, NotProperlySigned}
          /\ last.panic = NotProperlySigned <=>
                \E i \in LastBatchUnsigned : i <= LastBatchOverAt
    /\ (Imported /\ LastReachesWeightCheck /\ LastBatchOverAt = 0) =>
          last.panic # ExhaustsResources

\* block 2 executes a popped transaction and enqueues a batch whose first
\* transaction is too heavy and whose second is badly signed: rejected for
\* the weight
C18_Witness ==
    /\ Imported
    /\ LastReachesWeightCheck
    /\ LastHeader.number = 2
    /\ last.work.weight >= 1
    /\ LastBatchOverAt = 1
    /\ LastBatchUnsigned = {2}
    /\ last.panic = ExhaustsResources
    /\ storage = last.pre

\* C19 as claimed: a block whose enqueued batch weighs more than half of the
\* block limit is rejected.
C19_HalfBudgetEnforced ==
    (Imported /\ LastReachesWeightCheck
        /\ 2 * LastBatchWeight(Len(LastBatch)) > MaxBlockWeight) => ~Accepted

\* C19, amended: the verifier measures the enqueued batch against the whole
\* block limit: a block that reaches the weight check with a properly
\* signed batch is rejected for the weight iff the batch weighs more than
\* the block limit, whatever the block has consumed before; a batch of more
\* than half the limit that fits the limit does not get it rejected.
C19_FullBudgetEnforced ==
    (Imported /\ LastReachesWeightCheck /\ LastBatchUnsigned = {}) =>
        /\ last.panic = ExhaustsResources <=> LastBatchWeight(Len(LastBatch)) > MaxBlockWeight
        /\ LastBatchWeight(Len(LastBatch)) <= MaxBlockWeight =>
              last.panic \in {NoPanic, DigestCountMismatch, DigestItemMismatch,
                              StorageRootMismatch}

\* block 2 executes a popped transaction and enqueues a batch that weighs
\* the whole block limit: it is accepted
C19_Witness ==
    /\ Accepted
    /\ LastReachesWeightCheck
    /\ last.work.executed # <<>>
    /\ LastBatchWeight(Len(LastBatch)) = MaxBlockWeight
    /\ 2 * LastBatchWeight(Len(LastBatch)) > MaxBlockWeight
    /\ LastNewBatchSize(storage) = Len(LastBatch)

\* the last block pops nothing while the queue it is built on holds
\* transactions, enqueues a new batch, and passes every check up to and
\* including the execution of its extrinsics
LastAddsWithoutExecuting ==
    /\ LastReachesExecution
    /\ LastExecution.panic = NoPanic
    /\ LastHeader.count = 0
    /\ last.pre.queue # <<>>
    /\ LastBatch # <<>>

\* C20: a block that pops nothing (count = 0) while the storage queue holds
\* outstanding transactions and that enqueues a new batch is rejected with
\* "Collator didnt execute enqueued txs" and leaves the committed storage as
\* it was; no other block is rejected with that fault, and no accepted
\* block adds a batch to a non-empty queue without popping.
C20_CollatorMustExecute ==
    Imported =>
        /\ LastAddsWithoutExecuting =>
              /\ last.panic = CollatorDidntExecute
              /\ storage = last.pre
        /\ last.panic = CollatorDidntExecute => LastAddsWithoutExecuting
        /\ (Accepted /\ LastHeader.count = 0 /\ last.pre.queue # <<>>) =>
              enqueued_blocks_count(storage) = enqueued_blocks_count(last.pre)

\* block 2 is built on a queue that holds the batch of block 1, pops
\* nothing, enqueues a valid batch of its own, and is rejected for it
C20_Witness ==
    /\ Imported
    /\ LastAddsWithoutExecuting
    /\ LastHeader.number = 2
    /\ LastBatchGarbled = {} /\ LastBatchUnsigned = {}
    /\ last.panic = CollatorDidntExecute
    /\ enqueued_blocks_count(last.work) = enqueued_blocks_count(last.pre) + 1
    /\ storage = last.pre

\* the header the runtime computes from the working storage of the last block
LastComputedRoot == StateRoot(system_finalize(last.work))

LastComputedDigest == system_finalize(last.work).digest

\* C21: a block is accepted only if the state root and the digest items of
\* its header equal the ones computed after executing it; a block rejected
\* with "Storage root must match that calculated." carries another state
\* root than the computed one (its digest items match), one rejected for its
\* digest carries other digest items, and neither changes the committed
\* storage.
C21_RootsMustMatch ==
    Imported =>
        /\ Accepted =>
              /\ LastHeader.state_root = LastComputedRoot
              /\ LastHeader.digest = LastComputedDigest
        /\ last.panic = StorageRootMismatch =>
              /\ LastHeader.state_root # LastComputedRoot
              /\ LastHeader.digest = LastComputedDigest
              /\ storage = last.pre
        /\ last.panic \in {DigestCountMismatch, DigestItemMismatch} =>
              /\ LastHeader.digest # LastComputedDigest
              /\ storage = last.pre

\* block 2 pops a transaction, enqueues a batch, declares a state root that
\* is not the computed one, and is rejected for it
C21_Witness ==
    /\ Imported
    /\ LastHeader.number = 2
    /\ LastHeader.count > 0
    /\ last.panic = StorageRootMismatch
    /\ LastHeader.state_root # LastComputedRoot
    /\ storage = last.pre

\* the faults of the checks of execute_block_ver
VerifierFaults ==
    {CannotBuildPublic, SeedVerificationFailed, ParentHashInvalid, NotEnoughToPop,
     AssertionFailed, CollatorDidntExecute, OnlyUniqueTxs, CannotDeserialize,
     NotProperlySigned, DigestCountMismatch, DigestItemMismatch,
     StorageRootMismatch, ExhaustsResources, AlreadyEnqueued}

FirstBadMandatory(inherents) ==
    IF \E i \in DOMAIN inherents : inherents[i] = BadMandatory
    THEN CHOOSE i \in DOMAIN inherents :
             /\ inherents[i] = BadMandatory
             /\ \A j \in 1..(i - 1) : inherents[j] # BadMandatory
    ELSE 0

\* the inherents that are tried: all of them, or those before the first
\* failed mandatory one
TriedInherents(inherents) ==
    IF FirstBadMandatory(inherents) = 0 THEN DOMAIN inherents
    ELSE 1..(FirstBadMandatory(inherents) - 1)

\* C23: with the seed at hand, a failed mandatory inherent ends the proposal
\* with that error and the proposal never goes on to build a block; without
\* one the proposal goes on, every inherent that failed for another reason
\* (resources exhausted or any other error) is dropped and every other one
\* is pushed.
C23_InherentFailurePolicy ==
    [][/\ (pw.pc = "start" /\ pw'.pc # "start" /\ pw.has_seed) =>
              /\ pw'.pushed =
                     Cardinality({i \in TriedInherents(pw.inherents) :
                                      pw.inherents[i] = "ok"})
              /\ pw'.dropped =
                     Cardinality({i \in TriedInherents(pw.inherents) :
                                      pw.inherents[i] # "ok"})
              /\ IF FirstBadMandatory(pw.inherents) # 0
                 THEN pw'.pc = "failed" /\ pw'.error = BadMandatory
                 ELSE pw'.pc = "replay" /\ pw'.error = "none"
       /\ pw.pc = "failed" => pw' = pw
      ]_vars

\* an inherent was dropped, the proposal went on to the next inherent, and
\* that one failed as a mandatory inherent: the proposal is over
C23_Witness ==
    /\ pw.pc = "failed"
    /\ pw.error = BadMandatory
    /\ pw.dropped = 1
    /\ pw.pushed = 0

\* the error of create_inherents for inherent data without a seed
SeedMissing == extract_inherent_data(FALSE)

\* C24 as stated: a proposal whose inherent data holds no seed proceeds
\* (it can only end because of a failed mandatory inherent).
C24_MissingSeedIsNoError ==
    [][(pw.pc = "start" /\ pw'.pc # "start" /\ ~pw.has_seed) =>
           pw'.pc = "replay" \/ pw'.error = BadMandatory]_vars

\* C24: the builder takes the seed from the inherent data and generates
\* none; inherent data without a seed ends the proposal with the error
\* "cannot read random seed from inherents data" before any inherent is
\* pushed or dropped, and inherent data with the seed never gives that error.
C24_MissingSeedAborts ==
    [][(pw.pc = "start" /\ pw'.pc # "start") =>
           IF pw.has_seed THEN pw'.error # SeedMissing
           ELSE /\ pw'.pc = "failed"
                /\ pw'.error = SeedMissing
                /\ pw'.pushed = 0 /\ pw'.dropped = 0
                /\ pw'.inherents = pw.inherents]_vars

\* the proposal over inherent data without a seed has failed, although all
\* its inherents were good
C24_Witness ==
    /\ ~pw.has_seed
    /\ pw.pc = "failed"
    /\ pw.error = SeedMissing
    /\ Len(pw.inherents) = MaxInherents
    /\ \A i \in DOMAIN pw.inherents : pw.inherents[i] = "ok"

\* the step of the loop that takes one more transaction from the iterator
TakesPending == pw.pc = "loop" /\ Len(pw'.pool) = Len(pw.pool) + 1

\* the step left everything the loop accumulates as it was
NothingConsidered ==
    /\ pw'.validated = pw.validated
    /\ pw'.valid_txs = pw.valid_txs
    /\ pw'.reported = pw.reported
    /\ pw'.unqueue_invalid = pw.unqueue_invalid
    /\ pw'.block_size = pw.block_size
    /\ pw'.skipped = pw.skipped

\* C25: the deadline is compared with the clock before each pending
\* transaction is considered.  A transaction taken when the clock is past
\* the deadline ends the loop with HitDeadline and is neither validated,
\* staged nor reported; a transaction taken earlier is validated or
\* reported.  HitDeadline is no error: the block is built from what was
\* staged and only the transactions marked invalid leave the pool.
C25_DeadlineCancellation ==
    [][/\ TakesPending =>
              /\ pw'.end_reason = "HitDeadline" =>
                     /\ pw'.now > Deadline
                     /\ pw'.pc = "build" /\ pw'.error = "none"
                     /\ NothingConsidered
              /\ pw.now > Deadline => pw'.end_reason = "HitDeadline"
              /\ (pw.skipped < MAX_SKIPPED_TRANSACTIONS /\ pw'.now > Deadline)
                     => pw'.end_reason = "HitDeadline"
              /\ pw'.end_reason # "HitDeadline" =>
                     \/ pw'.validated = Append(pw.validated, Len(pw'.pool))
                     \/ pw'.reported = Append(pw.reported, Len(pw'.pool))
       /\ (pw.pc = "build" /\ pw'.pc # "build") =>
              /\ pw'.pc = "built" /\ pw'.error = "none"
              /\ pw'.valid_txs = pw.valid_txs
              /\ pw'.removed = pw.unqueue_invalid
      ]_vars

\* a block was built from the transaction staged before the deadline was hit;
\* the transaction taken after the deadline was not validated
C25_Witness ==
    /\ pw.pc = "built"
    /\ pw.end_reason = "HitDeadline"
    /\ pw.now > Deadline
    /\ Len(pw.pool) = 2
    /\ pw.valid_txs = <<1>>
    /\ pw.validated = <<1>>
    /\ pw.reported = <<>>
    /\ pw.removed = <<>>

\* the elements of a sequence
Range(seq) == {seq[i] : i \in DOMAIN seq}

\* the positions of the transactions of one kind among those the iterator gave
Positions(kind) == {i \in DOMAIN pw.pool : pw.pool[i] = kind}

\* the iterator gave resource-exhausting transactions and then good ones
ExhaustingThenGood ==
    /\ pw.pc \in {"loop", "build", "built"}
    /\ pw.pool # <<>>
    /\ \A i \in DOMAIN pw.pool : pw.pool[i] \in {"heavy", "good"}
    /\ \A i, j \in DOMAIN pw.pool :
           (pw.pool[i] = "good" /\ pw.pool[j] = "heavy") => j < i

\* the loop is over
LoopOver == pw.pc \in {"build", "built"}

ExhaustingThenGoodOutcome ==
    ExhaustingThenGood =>
        /\ pw.skipped =
               IF Cardinality(Positions("heavy") \cap Range(pw.validated))
                      < MAX_SKIPPED_TRANSACTIONS
               THEN Cardinality(Positions("heavy") \cap Range(pw.validated))
               ELSE MAX_SKIPPED_TRANSACTIONS
        /\ Range(pw.valid_txs) = Positions("good") \cap Range(pw.validated)
        /\ Range(pw.reported) = Positions("heavy") \cap Range(pw.validated)
        /\ pw.unqueue_invalid = <<>>
        /\ (LoopOver /\ pw.end_reason = "NoMoreTransactions") =>
               /\ Range(pw.validated) = DOMAIN pw.pool
               /\ Range(pw.valid_txs) = Positions("good")
        /\ (LoopOver /\ pw.end_reason = "HitDeadline") =>
               /\ Range(pw.validated) = 1..(Len(pw.pool) - 1)
               /\ pw.now > Deadline
        /\ (LoopOver /\ pw.end_reason = "HitBlockWeightLimit") =>
               /\ Cardinality(Positions("heavy")) > MAX_SKIPPED_TRANSACTIONS
               /\ Positions("good") = {}
               /\ pw.valid_txs = <<>>
               /\ Range(pw.validated) = DOMAIN pw.pool
               /\ ~(pw.now < pw.soft_deadline)
        /\ LoopOver =>
               pw.end_reason \in {"NoMoreTransactions", "HitDeadline",
                                  "HitBlockWeightLimit"}
        /\ Cardinality(Positions("heavy")) <= MAX_SKIPPED_TRANSACTIONS =>
               pw.end_reason # "HitBlockWeightLimit"

RECURSIVE SizeOfStaged(_, _)
SizeOfStaged(pool, ids) ==
    IF ids = <<>> THEN BlockSizeLimit \div 2 + EstimatedEmptySize
    ELSE encoded_size(pool[Head(ids)]) + HashLen + SizeOfStaged(pool, Tail(ids))

\* the transaction the step takes from the iterator
TakenTx == pw'.pool[Len(pw'.pool)]

\* C27: a good transaction that is taken before the deadline, while fewer
\* than MAX_SKIPPED_TRANSACTIONS skips are counted, and that fits into the
\* block next to the transactions staged so far, is staged, also after a
\* transaction was skipped for its size.
C27_OversizedDoesNotBlock ==
    [][(/\ TakesPending
        /\ pw'.end_reason # "HitDeadline"
        /\ pw.skipped < MAX_SKIPPED_TRANSACTIONS
        /\ TakenTx = "good"
        /\ SizeOfStaged(pw.pool, pw.valid_txs) + encoded_size(TakenTx) + HashLen
               <= BlockSizeLimit)
       => pw'.valid_txs = Append(pw.valid_txs, Len(pw'.pool))]_vars

\* the size counter holds more than the staged transactions account for
C27_CounterKeepsSkipped ==
    /\ pw.pc = "loop"
    /\ pw.pool = <<"big", "good">>
    /\ pw.valid_txs = <<>>
    /\ pw.reported = <<1, 2>>
    /\ pw.skipped = 2
    /\ pw.block_size > BlockSizeLimit
    /\ SizeOfStaged(pw.pool, pw.valid_txs) + encoded_size("good") + HashLen
           <= BlockSizeLimit

\* the transaction the step takes does not fit the size counter
TakenOverSize ==
    pw.block_size + encoded_size(TakenTx) + HashLen > BlockSizeLimit

\* the transaction the step takes is one the skip policy applies to
TakenExhausts ==
    TakenOverSize \/ validate_pending(TakenTx) = ExhaustsResources

\* C28: a transaction taken before the deadline ends the loop if and only if
\* it exhausts a resource (size or weight), MAX_SKIPPED_TRANSACTIONS skips
\* are already counted and the clock is not before the soft deadline; the
\* reason is then HitBlockSizeLimit or HitBlockWeightLimit.  Size skips and
\* weight skips are counted in the same counter, which never exceeds 8.
C28_SoftDeadlineMode ==
    [][(TakesPending /\ pw'.end_reason # "HitDeadline") =>
           /\ pw'.pc = "build" <=>
                  /\ TakenExhausts
                  /\ pw.skipped >= MAX_SKIPPED_TRANSACTIONS
                  /\ ~(pw'.now < pw.soft_deadline)
           /\ pw'.pc = "build" =>
                  pw'.end_reason = IF TakenOverSize THEN "HitBlockSizeLimit"
                                   ELSE "HitBlockWeightLimit"
           /\ pw'.skipped =
                  IF TakenExhausts /\ pw.skipped < MAX_SKIPPED_TRANSACTIONS
                  THEN pw.skipped + 1 ELSE pw.skipped
           /\ pw'.skipped <= MAX_SKIPPED_TRANSACTIONS
           /\ pw'.soft_deadline = pw.soft_deadline
      ]_vars

\* four weight skips and four size skips used up the bound; the next
\* oversized transaction, met after the soft deadline, ended the loop
C28_Witness ==
    /\ pw.pc = "build"
    /\ pw.end_reason = "HitBlockSizeLimit"
    /\ pw.pool = [i \in 1..(MAX_SKIPPED_TRANSACTIONS + 1) |->
                      IF i <= 4 THEN "heavy" ELSE "big"]
    /\ pw.skipped = MAX_SKIPPED_TRANSACTIONS
    /\ pw.validated = <<1, 2, 3, 4>>
    /\ ~(pw.now < pw.soft_deadline)
    /\ pw.now <= Deadline

\* the step validates the transaction it takes and finds it invalid
TakenFoundInvalid ==
    /\ TakesPending
    /\ pw'.end_reason # "HitDeadline"
    /\ ~TakenOverSize
    /\ validate_pending(TakenTx) = Stale

\* C29 as stated: every transaction found invalid is in the list handed to
\* remove_invalid, whether or not a transaction was skipped before it.
C29_EveryInvalidRemoved ==
    pw.pc = "built" =>
        \A i \in Positions("invalid") \cap Range(pw.validated) :
            i \in Range(pw.removed)

\* C29: a transaction found invalid is always reported to the iterator, and
\* it is marked for removal exactly when no skip was counted before it; with
\* a skip counted it stays in the pool.  No other transaction is marked, and
\* remove_invalid gets the marked transactions when the loop is over.
C29_InvalidRemovedUnlessSkipping ==
    [][/\ TakenFoundInvalid =>
              /\ pw'.reported = Append(pw.reported, Len(pw'.pool))
              /\ pw'.unqueue_invalid =
                     IF pw.skipped = 0
                     THEN Append(pw.unqueue_invalid, Len(pw'.pool))
                     ELSE pw.unqueue_invalid
              /\ pw'.skipped = pw.skipped
              /\ pw'.pc = "loop"
       /\ (TakesPending /\ ~TakenFoundInvalid) =>
              pw'.unqueue_invalid = pw.unqueue_invalid
       /\ (pw.pc = "build" /\ pw'.pc = "built") =>
              pw'.removed = pw.unqueue_invalid
      ]_vars

\* an invalid transaction met after a skip was reported to the iterator and
\* is not removed from the pool
C29_Witness ==
    /\ pw.pc = "built"
    /\ pw.pool = <<"heavy", "invalid">>
    /\ pw.validated = <<1, 2>>
    /\ pw.reported = <<1, 2>>
    /\ pw.skipped = 1
    /\ pw.removed = <<>>

\* C30: the ready iterator is awaited against a timer of one eighth of the
\* time left to the deadline at the last reading of the clock.  The select
\* is left for the loop with the result of ready_at or, when the timer
\* fires, with ready(), the rest of the state untouched; the timer always
\* fires, so the loop is reached even if ready_at never resolves.
C30_ReadyIteratorNeverStalls ==
    /\ [](pw.pc = "select" =>
              /\ 8 * pw.t2 <= saturating_duration_since(Deadline, pw.now)
              /\ saturating_duration_since(Deadline, pw.now) < 8 * (pw.t2 + 1)
              /\ pw.source = "none")
    /\ [][pw.pc = "select" =>
              /\ pw'.pc = "loop"
              /\ pw'.source \in {"ready_at", "ready"}
              /\ pw' = [pw EXCEPT !.pc = "loop", !.source = pw'.source]]_vars
    /\ [](pw.pc = "select" => ENABLED TimeoutFires)
    /\ (pw.pc = "select") ~> (pw.pc = "loop")

\* the timer of an eighth of the time left fired and the loop runs on the
\* ready() snapshot
C30_Witness ==
    /\ pw.pc = "loop"
    /\ pw.source = "ready"
    /\ pw.now = 0
    /\ pw.t2 = Deadline \div 8
    /\ pw.t2 > 0
    /\ pw.pool # <<>>

(***************************************************************************)
(* Properties of the generator (checked under SpecShuffle).  Words are     *)
(* compared through the integer values of their 16-bit limbs.              *)
(***************************************************************************)
\* the integer value of the n bits of word a that start at bit lo
RECURSIVE BitsValue(_, _, _)
BitsValue(a, lo, n) ==
    IF n = 0 THEN 0
    ELSE (IF (lo + n - 1) \in a THEN 2 ^ (n - 1) ELSE 0) + BitsValue(a, lo, n - 1)

\* limb k (0 = least significant) of a word
Limb(a, k) == BitsValue(a, 16 * k, 16)

\* the carry into limb k of a + b
RECURSIVE LimbCarry(_, _, _)
LimbCarry(a, b, k) ==
    IF k = 0 THEN 0
    ELSE (Limb(a, k - 1) + Limb(b, k - 1) + LimbCarry(a, b, k - 1)) \div 65536

\* limb k of the sum a + b modulo 2^64
SumLimb(a, b, k) == (Limb(a, k) + Limb(b, k) + LimbCarry(a, b, k)) % 65536

\* the generator state after n steps
RECURSIVE Steps(_, _)
Steps(s, n) == IF n = 0 THEN s ELSE Steps(XoshiroStep(s), n - 1)

\* the generator states the run went through before each of its steps: two
\* steps for every swap
StatesOfRun == {Steps(from_seed(sh_seed), n) : n \in 0 .. (2 * Len(sh_run.swaps))}

\* the state after a step, bit by bit: s0' = s0 ^ s3 ^ s1, s1' = s1 ^ s2 ^ s0,
\* s2' = s2 ^ s0 ^ (s1 << 17), s3' = rotl(s3 ^ s1, 45)
StepIsXoshiro(s, n) ==
    \A i \in 0 .. 63 :
        /\ i \in n[1] <=> ((i \in s[1]) # ((i \in s[4]) # (i \in s[2])))
        /\ i \in n[2] <=> ((i \in s[2]) # ((i \in s[3]) # (i \in s[1])))
        /\ i \in n[3] <=> (((i \in s[3]) # (i \in s[1])) # (i >= 17 /\ (i - 17) \in s[2]))
        /\ i \in n[4] <=> (((i + 64 - 45) % 64 \in s[4]) # ((i + 64 - 45) % 64 \in s[2]))

\* the four words of the state are the seed's bytes, little-endian
SeedIsLittleEndian ==
    \A w \in 0 .. 3 : \A j \in 0 .. 7 :
        BitsValue(from_seed(sh_seed)[w + 1], 8 * j, 8) = sh_seed[8 * w + j + 1]

\* C33 as stated: a step outputs the whole 64-bit sum s0 + s3 of the updated
\* state.
C33_StepOutputsWholeSum ==
    ShDone =>
        \A s \in StatesOfRun : \A k \in 0 .. 3 :
            Limb(next_u32(s).val, k) = SumLimb(next_u32(s).s[1], next_u32(s).s[4], k)

\* C33: the state is four words read little-endian from the seed; a step
\* updates it by t = s1 << 17; s2 ^= s0; s3 ^= s1; s1 ^= s2; s0 ^= s3;
\* s2 ^= t; s3 = rotl(s3, 45) and outputs the low 32 bits of the wrapping
\* sum s0 + s3 of the updated state (the high 32 bits are dropped).
C33_GeneratorStep ==
    ShDone =>
        /\ SeedIsLittleEndian
        /\ \A s \in StatesOfRun :
               /\ StepIsXoshiro(s, next_u32(s).s)
               /\ \A k \in 0 .. 1 :
                      Limb(next_u32(s).val, k)
                          = SumLimb(next_u32(s).s[1], next_u32(s).s[4], k)
               /\ \A i \in next_u32(s).val : i < 32

\* a run on the first test seed whose first step has a sum with bits above
\* the low 32, which the output drops
C33_Witness ==
    /\ ShDone
    /\ sh_seed = TestSeed1
    /\ Len(sh_run.swaps) >= 2
    /\ \E k \in 2 .. 3 :
           SumLimb(next_u32(from_seed(sh_seed)).s[1],
                   next_u32(from_seed(sh_seed)).s[4], k) # 0
    /\ next_u32(from_seed(sh_seed)).val # {}

\* the generator state before the draw of the k-th swap of the run
StateBeforeSwap(k) == Steps(from_seed(sh_seed), 2 * (k - 1))

\* random is the low half of the sum of state a in its high half and the low
\* half of the sum of state b in its low half
JoinsSums(random, a, b) ==
    /\ Limb(random, 3) = SumLimb(a[1], a[4], 1)
    /\ Limb(random, 2) = SumLimb(a[1], a[4], 0)
    /\ Limb(random, 1) = SumLimb(b[1], b[4], 1)
    /\ Limb(random, 0) = SumLimb(b[1], b[4], 0)

\* C38: next_u64 makes two generator steps and returns the low 32 bits of
\* the first step's s0 + s3 in its high half and the low 32 bits of the
\* second step's s0 + s3 in its low half; the state after it is the state
\* after two steps; the k-th swap of a run uses the value of the k-th
\* next_u64 call on the generator seeded once for the run.
C38_TwoStepsPerDraw ==
    ShDone =>
        \A k \in DOMAIN sh_run.swaps :
            /\ next_u64(StateBeforeSwap(k)).val = sh_run.swaps[k].random
            /\ next_u64(StateBeforeSwap(k)).s = Steps(StateBeforeSwap(k), 2)
            /\ next_u64(StateBeforeSwap(k)).s = StateBeforeSwap(k + 1)
            /\ JoinsSums(sh_run.swaps[k].random,
                         Steps(StateBeforeSwap(k), 1), Steps(StateBeforeSwap(k), 2))

\* a run of two rounds of two elements, one swap each, whose draws have
\* different high and low halves
C38_Witness ==
    /\ ShDone
    /\ sh_seed = TestSeed2
    /\ sh_run.rounds = <<2, 2>>
    /\ Len(sh_run.swaps) = 2
    /\ \A k \in DOMAIN sh_run.swaps :
           /\ Limb(sh_run.swaps[k].random, 3) # Limb(sh_run.swaps[k].random, 1)
           /\ Limb(sh_run.swaps[k].random, 2) # Limb(sh_run.swaps[k].random, 0)
    /\ sh_run.swaps[1].random # sh_run.swaps[2].random

(***************************************************************************)
(* Properties of the shuffle of one round (checked under SpecShuffle)      *)
(***************************************************************************)
\* the signers with at least r elements in the input
RoundSigners(r) ==
    {a \in ShSignersOf(sh_input) :
        Cardinality({p \in DOMAIN sh_input : sh_input[p][1] = a}) >= r}

\* the r-th element of signer a
NthOf(a, r) ==
    sh_input[CHOOSE q \in DOMAIN sh_input :
                 sh_input[q][1] = a /\ ShRank(sh_input, q) = r][2]

\* round r as it is pushed to slots, in the order of the signers' keys
RoundPushed(r) ==
    [p \in 1 .. Cardinality(RoundSigners(r)) |->
        NthOf(SortedKeys(RoundSigners(r))[p], r)]

\* round r as it is in the output
RoundShuffled(r) ==
    [p \in 1 .. Cardinality(RoundSigners(r)) |->
        sh_run.slots[ShOffset(sh_input, r) + p]]

\* where the shuffle of round r put the element pushed at position p
MovedTo(r, p) ==
    CHOOSE m \in DOMAIN RoundShuffled(r) : RoundShuffled(r)[m] = RoundPushed(r)[p]

\* the position reached from p by following MovedTo m times
RECURSIVE Follow(_, _, _)
Follow(r, p, m) == IF m = 0 THEN p ELSE Follow(r, MovedTo(r, p), m - 1)

\* the shuffle of round r is one cycle through all its positions
SingleCycle(r) ==
    {Follow(r, 1, m) : m \in 0 .. (Len(RoundPushed(r)) - 1)} = DOMAIN RoundPushed(r)

EntryRest(e, seed) ==
    LET txs == IF e.shuffled THEN e.txs ELSE ShuffleTable[e.txs, seed]
    IN  [i \in 1 .. (Len(txs) - e.index) |->
            [data |-> txs[e.index + i][2], nr |-> e.nr]]

\* the whole queue in the order of its entries
RECURSIVE Flat(_, _)
Flat(queue, seed) ==
    IF queue = <<>> THEN <<>>
    ELSE EntryRest(Head(queue), seed) \o Flat(Tail(queue), seed)

\* the counts a block can ask the queue for
PopCounts == 0 .. (2 * MaxBatch + 1)

\* popping count transactions from the committed storage once seed is stored
PopNext(seed, count) == pop_txs(set_block_seed(storage, seed), count)

\* pop_txs takes a prefix of the queue and leaves the rest, in order
PopsInOrder(seed, count) ==
    LET all == Flat(storage.queue, seed)
        n   == IF count < Len(all) THEN count ELSE Len(all)
    IN  /\ PopNext(seed, count).elems = SubSeq(all, 1, n)
        /\ Flat(PopNext(seed, count).st.queue, seed) = SubSeq(all, n + 1, Len(all))

\* the last block found one whole batch in the queue, enqueued by the block
\* before it, and popped all of it
LastPopsWholeBatch ==
    /\ Imported
    /\ LastReachesPop
    /\ Len(last.pre.queue) = 1
    /\ ~last.pre.queue[1].shuffled
    /\ LastHeader.count = Len(last.pre.queue[1].txs)

\* the payloads of a sequence of (signer, payload) pairs
PayloadsOf(txs) == [i \in DOMAIN txs |-> txs[i][2]]

\* the payloads the last block popped
LastPoppedData == [i \in DOMAIN LastPop.elems |-> LastPop.elems[i].data]

LastInherents == SelectSeq(last.block.extrinsics, IsInherent)

\* the extrinsics the last block executes, in the order of execution
LastExecutionOrder ==
    XtsOf(tx_to_be_executed(LastInherents, DecodeFilter(LastPop.elems),
                            LastHeader.number))

\* what the execution of the popped transactions alone returns
LastReplay ==
    execute_extrinsics_with_book_keeping(LastPop.st, DecodeFilter(LastPop.elems))

\* the storage after the popped transactions alone were executed
LastReplayAlone == LastReplay.st

\* C34: a block with n inherents executes its first n - 1 inherents, then
\* the popped transactions in popped order, then its last inherent (the
\* popped transactions alone for n = 0, the popped transactions and then the
\* inherent for n = 1).  The enqueue inherent placed last runs on the
\* storage the replay left, and a second enqueue inherent fails only after
\* a replay that did not fail has run.
C34_ExecutionOrder ==
    (Imported /\ LastReachesExecution) =>
        /\ LastExecutionOrder =
               IF LastInherents = <<>> THEN LastPoppedTxs
               ELSE SubSeq(LastInherents, 1, Len(LastInherents) - 1)
                        \o LastPoppedTxs
                        \o <<LastInherents[Len(LastInherents)]>>
        /\ Len(LastInherents) <= 1 =>
               /\ LastExecution.st.executed = LastReplayAlone.executed
               /\ LastExecution.st.nonces = LastReplayAlone.nonces
        /\ (Len(LastInherents) = 1 /\ LastExecution.panic = NoPanic) =>
               LastExecution.st =
                   enqueue_txs(LastReplayAlone, LastInherents[1].txs).st
        /\ (/\ Len(LastInherents) = 2
            /\ LastInherents[1].txs # <<>>
            /\ LastReplay.panic = NoPanic) =>
               /\ last.panic = AlreadyEnqueued
               /\ last.work.executed = LastReplayAlone.executed
               /\ last.work.did_enqueue
               /\ Len(last.work.queue) = Len(LastPop.st.queue) + 1

\* block 2 holds two enqueue inherents and two popped transactions: the
\* first inherent and both transactions ran before the second inherent
\* failed
C34_Witness ==
    /\ Imported
    /\ LastReachesExecution
    /\ LastHeader.number = 2
    /\ Len(LastInherents) = 2
    /\ Len(LastPoppedTxs) = 2
    /\ LastExecutionOrder[1] = LastInherents[1]
    /\ LastExecutionOrder[4] = LastInherents[2]
    /\ Len(last.work.executed) = 2
    /\ last.work.did_enqueue
    /\ last.panic = AlreadyEnqueued

\* the result of every item of a list, each applied on the storage the
\* ones before it left, a failed one leaving the storage as it was
RECURSIVE ResultsAlong(_, _)
ResultsAlong(st, items) ==
    IF items = <<>> THEN <<>>
    ELSE <<apply_extrinsic(st, Head(items).xt, Head(items).nr).res>>
             \o ResultsAlong(apply_extrinsic(st, Head(items).xt, Head(items).nr).st,
                             Tail(items))

\* the positions of a list whose failure rejects the block: the failed
\* unsigned extrinsics, and the signed ones that would exhaust the block
RejectingAt(st, items) ==
    {i \in DOMAIN items :
        /\ ResultsAlong(st, items)[i] # "ok"
        /\ \/ ~is_signed(items[i].xt)
           \/ ResultsAlong(st, items)[i] = ExhaustsResources}

\* the positions of a list whose failure is logged and skipped
SkippedAt(st, items) ==
    {i \in DOMAIN items :
        /\ ResultsAlong(st, items)[i] # "ok"
        /\ is_signed(items[i].xt)
        /\ ResultsAlong(st, items)[i] # ExhaustsResources}

\* the fault the execution of a list has to end with
ExpectedPanic(st, items) ==
    IF RejectingAt(st, items) = {} THEN NoPanic
    ELSE ResultsAlong(st, items)[CHOOSE i \in RejectingAt(st, items) :
                                     \A j \in RejectingAt(st, items) : i <= j]

\* the list the last block executes
LastItems ==
    tx_to_be_executed(LastInherents, DecodeFilter(LastPop.elems), LastHeader.number)

\* the list executed by the honest block that pops the whole committed
\* queue, and the storage it is executed on
DrainAllPop ==
    pop_txs(set_block_seed(system_initialize(storage, storage.number + 1),
                           vrf_output(AuthorKey, block_seed(storage))),
            QueueSize(storage))

DrainAllItems == DecodeFilter(DrainAllPop.elems)

\* C35: the execution of a block's extrinsics rejects the block in exactly
\* two cases: the failing extrinsic is unsigned, or it is signed and would
\* exhaust the block limits.  Every other failure of a signed extrinsic is
\* skipped: the extrinsics after it are executed, and the block is not
\* rejected for it.
C35_RejectionCases ==
    /\ (Imported /\ LastReachesExecution) =>
          /\ LastExecution.panic = ExpectedPanic(LastPop.st, LastItems)
          /\ LastExecution.panic # NoPanic => last.panic = LastExecution.panic
          /\ RejectingAt(LastPop.st, LastItems) = {} =>
                Len(LastExecution.st.executed)
                    = Cardinality({i \in DOMAIN LastItems :
                          /\ is_signed(LastItems[i].xt)
                          /\ ResultsAlong(LastPop.st, LastItems)[i] = "ok"})
          /\ last.panic \notin OrdinaryFaults
    /\ sh_phase = "off" =>
          /\ DrainAllPanic = ExpectedPanic(DrainAllPop.st, DrainAllItems)
          /\ DrainAllPanic \in {NoPanic, ExhaustsResources}

\* the last block skipped a replayed transaction with a bad nonce or a bad
\* signature and was accepted, and the block that pops the whole committed
\* queue would be rejected for a signed transaction that exhausts the block
\* limits
C35_Witness ==
    /\ sh_phase = "off"
    /\ Accepted
    /\ LastReachesExecution
    /\ SkippedAt(LastPop.st, LastItems) # {}
    /\ RejectingAt(LastPop.st, LastItems) = {}
    /\ \E i \in RejectingAt(DrainAllPop.st, DrainAllItems) :
           is_signed(DrainAllItems[i].xt)
    /\ DrainAllPanic = ExhaustsResources

(***************************************************************************)
(* Properties of the size counter of the proposer (checked under           *)
(* SpecPropose)                                                            *)
(***************************************************************************)
\* what the staged transactions add to a block: the encoded size and one
\* hash each
RECURSIVE StagedBytes(_, _)
StagedBytes(pool, ids) ==
    IF ids = <<>> THEN 0
    ELSE encoded_size(pool[Head(ids)]) + HashLen + StagedBytes(pool, Tail(ids))

\* the room the pool drain has: the limit less the half kept for the
\* replayed transactions and less the empty block
DrainRoom == BlockSizeLimit - BlockSizeLimit \div 2 - EstimatedEmptySize

\* C36: the size counter of the pool drain starts at block_size_limit / 2
\* plus the estimate of the empty block; a transaction is staged only if the
\* counter with the transaction's encoded size and 32 bytes added is at
\* most the limit; hence the staged batch (encoded size plus 32 bytes each)
\* never exceeds limit - limit / 2 - estimate.
C36_StagedWithinRoom ==
    /\ [](pw.pc = "select" =>
             pw.block_size = BlockSizeLimit \div 2 + EstimatedEmptySize)
    /\ [](/\ StagedBytes(pw.pool, pw.valid_txs) <= DrainRoom
          /\ pw.pc \in {"loop", "build", "built"} =>
                pw.block_size >= BlockSizeLimit \div 2 + EstimatedEmptySize
                                     + StagedBytes(pw.pool, pw.valid_txs))
    /\ [][(TakesPending /\ pw'.valid_txs # pw.valid_txs) =>
             /\ pw'.valid_txs = Append(pw.valid_txs, Len(pw'.pool))
             /\ pw.block_size + encoded_size(TakenTx) + 32 <= BlockSizeLimit
             /\ pw'.block_size = pw.block_size + encoded_size(TakenTx) + 32]_vars

\* a proposal with transactions staged and a large transaction that was
\* left out for its size
C36_Witness ==
    /\ pw.pc = "built"
    /\ Len(pw.valid_txs) >= 2
    /\ StagedBytes(pw.pool, pw.valid_txs) = Len(pw.valid_txs) * (1 + 32)
    /\ \E i \in DOMAIN pw.pool :
          /\ pw.pool[i] = "big"
          /\ i \in Range(pw.reported)
          /\ i \notin Range(pw.validated)
    /\ pw.block_size > BlockSizeLimit

(***************************************************************************)
(* The block builder as a state machine.  bb is one BlockBuilder: body is  *)
(* what the backend returns for the body of the parent, api the storage    *)
(* overlay of the block under construction, attempts the extrinsics of the *)
(* parent handed to apply_extrinsic_with_context so far, op the last call  *)
(* and its result.                                                         *)
(***************************************************************************)
MaxPushed == 2

\* the runtime's apply_extrinsic as the overlay sees it: the signed
\* extensions run one after the other, and the nonce is written before the
\* weight check fails
apply_extrinsic_with_context(st, xt) ==
    LET r == apply_extrinsic(st, xt, block_number(st))
    IN  IF is_signed(xt) /\ r.res = ExhaustsResources
        THEN [res |-> r.res, st |-> [st EXCEPT !.nonces[xt.who] = @ + 1]]
        ELSE r

\* a storage transaction that keeps the changes whatever the outcome
CommitWhatever(before, r, commit) == r.st

\* ApiExt::execute_in_transaction: the changes made inside are kept on
\* TransactionOutcome::Commit and dropped on TransactionOutcome::Rollback
execute_in_transaction(before, r, commit) == IF commit THEN r.st ELSE before

\* BlockBuilder::new
BlockBuilder_new(body, seed) ==
    [BbIdle EXCEPT !.pc = "open", !.body = body, !.seed = seed,
                   !.api = initialize_block(Genesis, [number |-> 1])]

\* BlockBuilder::push
push(b, xt) ==
    [b EXCEPT !.extrinsics = Append(@, xt),
              !.op = [name |-> "push", xt |-> xt, res |-> "ok"]]

\* BlockBuilder::push_with_api, called with the builder's own api
push_with_api(b, xt) ==
    LET r == apply_extrinsic_with_context(b.api, xt)
    IN  [b EXCEPT !.api = execute_in_transaction(b.api, r, r.res = "ok"),
                  !.extrinsics = IF r.res = "ok" THEN Append(@, xt) ELSE @,
                  !.op = [name |-> "push_with_api", xt |-> xt, res |-> r.res]]

\* extrinsic_shuffler::shuffle: the extrinsics next to their signers are
\* handed to shuffle_using_seed
extrinsic_shuffler_shuffle(extrinsics, seed) ==
    IF Len(extrinsics) <= 1 THEN extrinsics
    ELSE LET sh == ShuffleTable[[i \in DOMAIN extrinsics |->
                                    <<get_signer(extrinsics[i]), Encode(extrinsics[i])>>],
                                seed]
         IN  [i \in DOMAIN sh |-> Decode(sh[i][2]).xt]

\* the loop of apply_previous_block: every extrinsic in a storage
\* transaction of its own
RECURSIVE apply_each(_, _)
apply_each(st, xts) ==
    IF xts = <<>> THEN st
    ELSE LET r == apply_extrinsic_with_context(st, Head(xts))
         IN  apply_each(execute_in_transaction(st, r, r.res = "ok"), Tail(xts))

\* BlockBuilder::apply_previous_block
apply_previous_block(b, seed) ==
    LET previous_block_extrinsics == b.body
        shuffled_extrinsics ==
            IF Len(previous_block_extrinsics.v) <= 1 THEN previous_block_extrinsics.v
            ELSE extrinsic_shuffler_shuffle(previous_block_extrinsics.v, seed)
    IN  IF previous_block_extrinsics.some
        THEN [b EXCEPT !.previous_block_extrinsics = previous_block_extrinsics,
                       !.api = apply_each(@, shuffled_extrinsics),
                       !.attempts = @ \o shuffled_extrinsics]
        ELSE [b EXCEPT !.previous_block_extrinsics = previous_block_extrinsics]

\* a build that applies the previous block whatever was applied before
BuildAppliesAlways(b, seed) == apply_previous_block(b, seed)

\* BlockBuilder::build_with_seed, its first statement: the previous block
\* is applied if no body has been recorded
build_applies_previous(b, seed) ==
    IF ~b.previous_block_extrinsics.some THEN apply_previous_block(b, seed) ELSE b

\* BlockBuilder::build_with_seed: the block is finalized and the recorded
\* body of the parent goes into the digest
BlockBuilder_build_with_seed(b, seed) ==
    LET a == build_applies_previous(b, seed)
    IN  [a EXCEPT !.pc = "built",
                  !.api = system_finalize(@),
                  !.digest = a.previous_block_extrinsics,
                  !.op = [name |-> "build_with_seed", xt |-> EnqueueXt(<<>>), res |-> "ok"]]

\* the bodies the backend may hold for the parent: none, or up to MaxBatch
\* transactions
ParentBodies == {None} \cup {Some(v) : v \in SeqsUpTo(TxUniverse, MaxBatch)}

InitBuilder ==
    /\ sh_input = <<>>
    /\ sh_seed = ZeroSeed
    /\ sh_run = NoRun
    /\ sh_phase = "off"
    /\ storage = Genesis
    /\ last = NoImport
    /\ pw = PwIdle
    /\ vest = VestIdle
    /\ \E body \in ParentBodies, seed \in SeedIds : bb = BlockBuilder_new(body, seed)

BbPush ==
    /\ bb.pc = "open"
    /\ Len(bb.extrinsics) < MaxPushed
    /\ \E xt \in TxUniverse : bb' = push(bb, xt)
    /\ UNCHANGED <<sh_vars, chain_vars, vest>>

BbPushWithApi ==
    /\ bb.pc = "open"
    /\ Len(bb.extrinsics) < MaxPushed
    /\ \E xt \in TxUniverse : bb' = push_with_api(bb, xt)
    /\ UNCHANGED <<sh_vars, chain_vars, vest>>

BbRecord ==
    /\ bb.pc = "open"
    /\ Len(bb.extrinsics) < MaxPushed
    /\ \E xt \in TxUniverse :
          bb' = [record_without_commiting_changes(bb, xt).b EXCEPT
                    !.op = [name |-> "record_without_commiting_changes", xt |-> xt,
                            res |-> record_without_commiting_changes(bb, xt).res]]
    /\ UNCHANGED <<sh_vars, chain_vars, vest>>

\* the proposer applies the previous block once, with the seed of the
\* inherent data
BbApplyPreviousBlock ==
    /\ bb.pc = "open"
    /\ ~bb.applied_previous
    /\ bb' = [apply_previous_block(bb, bb.seed) EXCEPT
                 !.applied_previous = TRUE,
                 !.op = [name |-> "apply_previous_block", xt |-> EnqueueXt(<<>>),
                         res |-> "ok"]]
    /\ UNCHANGED <<sh_vars, chain_vars, vest>>

BbBuildWithSeed ==
    /\ bb.pc = "open"
    /\ bb' = BlockBuilder_build_with_seed(bb, bb.seed)
    /\ UNCHANGED <<sh_vars, chain_vars, vest>>

NextBuilder ==
    \/ BbPush
    \/ BbPushWithApi
    \/ BbRecord
    \/ BbApplyPreviousBlock
    \/ BbBuildWithSeed

SpecBuilder == InitBuilder /\ [][NextBuilder]_vars

(***************************************************************************)
(* Properties of the block builder (checked under SpecBuilder)             *)
(***************************************************************************)
\* the storage after xts were applied one after the other, the changes of
\* the ones that succeed kept and nothing else
RECURSIVE KeptChanges(_, _)
KeptChanges(st, xts) ==
    IF xts = <<>> THEN st
    ELSE KeptChanges(apply_extrinsic(st, Head(xts), block_number(st)).st, Tail(xts))

\* the extrinsics of the parent the step handed to the runtime
NewAttempts == SubSeq(bb'.attempts, Len(bb.attempts) + 1, Len(bb'.attempts))

\* how often x occurs in a list
Occurrences(list, x) == Cardinality({i \in DOMAIN list : list[i] = x})

\* the step replays the body of the parent
ReplaysParent ==
    \/ bb'.op.name = "apply_previous_block"
    \/ bb'.op.name = "build_with_seed" /\ ~bb.previous_block_extrinsics.some

\* C31: push_with_api keeps the changes of the extrinsic and pushes it if
\* and only if its application succeeds; after a failed application the
\* storage and the list of extrinsics are as before the call.  The replay
\* of the parent's body hands every extrinsic of the body to the runtime,
\* the failed ones as well, keeps the changes of the ones that succeed and
\* nothing of the ones that fail, and leaves the list of extrinsics alone.
C31_AtomicApplication ==
    [][/\ bb'.op.name = "push_with_api" =>
             /\ bb'.op.res = apply_extrinsic(bb.api, bb'.op.xt, block_number(bb.api)).res
             /\ bb'.op.res = "ok" =>
                   /\ bb'.api = apply_extrinsic(bb.api, bb'.op.xt, block_number(bb.api)).st
                   /\ bb'.extrinsics = Append(bb.extrinsics, bb'.op.xt)
             /\ bb'.op.res # "ok" =>
                   /\ bb'.api = bb.api
                   /\ bb'.extrinsics = bb.extrinsics
       /\ ReplaysParent =>
             /\ \A x \in TxUniverse :
                   Occurrences(NewAttempts, x) = Occurrences(bb.body.v, x)
             /\ bb'.extrinsics = bb.extrinsics
             /\ bb'.api = IF bb'.pc = "built"
                          THEN system_finalize(KeptChanges(bb.api, NewAttempts))
                          ELSE KeptChanges(bb.api, NewAttempts)]_vars

\* the parent's body was replayed, its first transaction failing and its
\* second one applied; one transaction was pushed after it, and the last
\* push_with_api failed on the block's weight and left no trace
C31_Witness ==
    /\ bb.pc = "open"
    /\ bb.applied_previous
    /\ Len(bb.attempts) = 2
    /\ apply_extrinsic(initialize_block(Genesis, [number |-> 1]), bb.attempts[1], 1).res
           \in {Stale, Future, BadProof}
    /\ Len(bb.api.executed) = 2
    /\ Len(bb.extrinsics) = 1
    /\ bb.op.name = "push_with_api"
    /\ bb.op.res = ExhaustsResources
    /\ bb.api.nonces[bb.op.xt.who] = bb.op.xt.nonce

\* C39: within one build every transaction of the parent's body is handed
\* to the runtime at most once, whether apply_previous_block was called
\* before build_with_seed or not, and exactly once when the block is built;
\* the body recorded goes into the digest.
C39_ParentAppliedOnce ==
    /\ \A x \in TxUniverse : Occurrences(bb.attempts, x) <= Occurrences(bb.body.v, x)
    /\ bb.applied_previous => bb.previous_block_extrinsics = bb.body
    /\ bb.pc = "built" =>
          /\ \A x \in TxUniverse : Occurrences(bb.attempts, x) = Occurrences(bb.body.v, x)
          /\ bb.digest = bb.body

\* a block built after apply_previous_block was called: the two
\* transactions of the parent were handed to the runtime once each
C39_Witness ==
    /\ bb.pc = "built"
    /\ bb.applied_previous
    /\ Len(bb.body.v) = 2
    /\ Len(bb.attempts) = 2
    /\ Len(bb.api.executed) >= 1

(***************************************************************************)
(* The vesting pallet as a state machine, for one account and one token.   *)
(* vest is [now, schedules, lock, adds, op]: the block number, the entry   *)
(* of the Vesting map (None when absent), the lock VESTING_ID of the       *)
(* tokens pallet, the number of schedules added so far, and the last call  *)
(* with its result.  A schedule is [locked, per_block, starting_block].     *)
(***************************************************************************)
MAX_VESTING_SCHEDULES == 2
MaxNow == 3        \* the last block number
MaxAmount == 2     \* the largest amount a call names
MaxAdds == 3       \* the number of schedules that are added in one run

VestingInfo_new(locked, per_block, starting_block) ==
    [locked |-> locked, per_block |-> per_block, starting_block |-> starting_block]

Max2(a, b) == IF a >= b THEN a ELSE b

\* VestingInfo::per_block: at least one
per_block_of(s) == Max2(s.per_block, 1)

\* VestingInfo::is_valid
is_valid(s) == s.locked # 0 /\ s.per_block # 0

\* VestingInfo::locked_at: what is still locked at block n
locked_at(s, n) ==
    LET vested_block_count == IF n > s.starting_block THEN n - s.starting_block ELSE 0
        vested == vested_block_count * per_block_of(s)
    IN  IF s.locked > vested THEN s.locked - vested ELSE 0

\* VestingInfo::ending_block_as_balance: the block at which nothing is
\* locked any more
ending_block_as_balance(s) ==
    s.starting_block
        + (IF per_block_of(s) >= s.locked THEN 1
           ELSE s.locked \div per_block_of(s)
                    + (IF s.locked % per_block_of(s) = 0 THEN 0 ELSE 1))

\* VestingAction: Passive, Remove {index}, Merge {index1, index2}; the
\* indices count from 0
Passive == [kind |-> "Passive", index1 |-> 0, index2 |-> 0]
Remove(index) == [kind |-> "Remove", index1 |-> index, index2 |-> index]
Merge(index1, index2) == [kind |-> "Merge", index1 |-> index1, index2 |-> index2]

\* VestingAction::should_remove
should_remove(action, index) ==
    CASE action.kind = "Passive" -> FALSE
      [] action.kind = "Remove"  -> action.index1 = index
      [] OTHER                   -> action.index1 = index \/ action.index2 = index

\* the schedules at the positions of keep, in their order
RECURSIVE KeepAt(_, _)
KeepAt(schedules, keep) ==
    IF schedules = <<>> THEN <<>>
    ELSE KeepAt(SubSeq(schedules, 1, Len(schedules) - 1), keep)
             \o (IF Len(schedules) \in keep THEN <<schedules[Len(schedules)]>> ELSE <<>>)

\* VestingAction::pick_schedules
pick_schedules(action, schedules) ==
    KeepAt(schedules, {i \in DOMAIN schedules : ~should_remove(action, i - 1)})

RECURSIVE TotalLockedAt(_, _)
TotalLockedAt(schedules, n) ==
    IF schedules = <<>> THEN 0
    ELSE locked_at(Head(schedules), n) + TotalLockedAt(Tail(schedules), n)

\* a report that keeps the schedules that have ended
ReportWithoutFilter(schedules, action, now) ==
    [schedules |-> pick_schedules(action, schedules),
     locked_now |-> TotalLockedAt(pick_schedules(action, schedules), now)]

\* Pallet::report_schedule_updates
report_schedule_updates(schedules, action, now) ==
    LET picked == pick_schedules(action, schedules)
        filtered_schedules ==
            KeepAt(picked, {i \in DOMAIN picked : locked_at(picked[i], now) # 0})
    IN  [schedules |-> filtered_schedules,
         locked_now |-> TotalLockedAt(filtered_schedules, now)]

\* Pallet::merge_vesting_info: Some(schedule) or None
merge_vesting_info(now, schedule1, schedule2) ==
    LET schedule1_ending_block == ending_block_as_balance(schedule1)
        schedule2_ending_block == ending_block_as_balance(schedule2)
        locked         == locked_at(schedule1, now) + locked_at(schedule2, now)
        ending_block   == Max2(schedule1_ending_block, schedule2_ending_block)
        starting_block == Max2(Max2(now, schedule1.starting_block), schedule2.starting_block)
        duration       == Max2(IF ending_block > starting_block
                               THEN ending_block - starting_block ELSE 0, 1)
    IN  IF schedule1_ending_block <= now /\ schedule2_ending_block <= now THEN None
        ELSE IF schedule1_ending_block <= now THEN Some(schedule2)
        ELSE IF schedule2_ending_block <= now THEN Some(schedule1)
        ELSE Some(VestingInfo_new(locked, Max2(locked \div duration, 1), starting_block))

\* Pallet::exec_action: [err, schedules, locked_now], err "" on Ok
exec_action(schedules, action, now) ==
    IF action.kind = "Merge"
    THEN IF action.index1 >= Len(schedules) \/ action.index2 >= Len(schedules)
         THEN [err |-> "ScheduleIndexOutOfBounds", schedules |-> schedules, locked_now |-> 0]
         ELSE LET r == report_schedule_updates(schedules, action, now)
                  new_schedule == merge_vesting_info(now, schedules[action.index1 + 1],
                                                     schedules[action.index2 + 1])
              IN  IF new_schedule.some
                  THEN [err |-> "", schedules |-> Append(r.schedules, new_schedule.v),
                        locked_now |-> r.locked_now + locked_at(new_schedule.v, now)]
                  ELSE [err |-> "", schedules |-> r.schedules, locked_now |-> r.locked_now]
    ELSE [err |-> "",
          schedules |-> report_schedule_updates(schedules, action, now).schedules,
          locked_now |-> report_schedule_updates(schedules, action, now).locked_now]

NoLock == [held |-> FALSE, amount |-> 0]

\* Pallet::write_lock
write_lock(v, total_locked_now) ==
    IF total_locked_now = 0 THEN [v EXCEPT !.lock = NoLock]
    ELSE [v EXCEPT !.lock = [held |-> TRUE, amount |-> total_locked_now]]

\* Pallet::write_vesting followed by Pallet::write_lock, as every call ends:
\* the schedules have to fit the bounded vector, an empty list removes the
\* entry; call names the call and its arguments
WriteBoth(v, schedules, locked_now, call) ==
    IF Len(schedules) > MAX_VESTING_SCHEDULES
    THEN [v EXCEPT !.op = [call EXCEPT !.err = "AtMaxVestingSchedules"]]
    ELSE write_lock([v EXCEPT !.schedules = IF schedules = <<>> THEN None ELSE Some(schedules),
                              !.op = call],
                    locked_now)

\* a call that fails, or returns, before it writes anything
Returns(v, call, err) == [v EXCEPT !.op = [call EXCEPT !.err = err]]

\* a call whose exec_action returned r
AfterExec(v, r, call) ==
    IF r.err # "" THEN Returns(v, call, r.err)
    ELSE WriteBoth(v, r.schedules, r.locked_now, call)

\* a call: its name, whether its arguments make it return at once, and its
\* error ("" on Ok)
Call(name, trivial) == [name |-> name, trivial |-> trivial, err |-> ""]

\* Pallet::do_vest, called by vest and by vest_other
do_vest(v, call) ==
    IF ~v.schedules.some THEN Returns(v, call, "NotVesting")
    ELSE AfterExec(v, exec_action(v.schedules.v, Passive, v.now), call)

\* Pallet::merge_schedules
merge_schedules(v, schedule1_index, schedule2_index) ==
    LET call == Call("merge_schedules", schedule1_index = schedule2_index)
    IN  IF schedule1_index = schedule2_index THEN Returns(v, call, "")
        ELSE IF ~v.schedules.some THEN Returns(v, call, "NotVesting")
        ELSE AfterExec(v, exec_action(v.schedules.v,
                                      Merge(schedule1_index, schedule2_index), v.now),
                       call)

\* unlock_tokens: the position of the schedule it selects, 0 if there is
\* none: among the schedules that hold unlock_amount the one that ends
\* first, the earliest of them
SelectedSchedule(schedules, unlock_amount, now) ==
    LET fit == {i \in DOMAIN schedules : locked_at(schedules[i], now) >= unlock_amount}
    IN  IF fit = {} THEN 0
        ELSE CHOOSE i \in fit : \A j \in fit :
                 \/ ending_block_as_balance(schedules[i]) < ending_block_as_balance(schedules[j])
                 \/ /\ ending_block_as_balance(schedules[i]) = ending_block_as_balance(schedules[j])
                    /\ i <= j

\* MultiTokenVestingLocks::unlock_tokens
unlock_tokens(v, unlock_amount) ==
    LET call      == Call("unlock_tokens", FALSE)
        schedules == v.schedules.v
        sel       == SelectedSchedule(schedules, unlock_amount, v.now)
        selected  == schedules[sel]
        updated_schedules == KeepAt(schedules, DOMAIN schedules \ {sel})
        new_locked  == locked_at(selected, v.now) - unlock_amount
        start_block == Max2(v.now, selected.starting_block)
        length_as_balance ==
            Max2(IF ending_block_as_balance(selected) > start_block
                 THEN ending_block_as_balance(selected) - start_block ELSE 0, 1)
        vesting_schedule ==
            VestingInfo_new(new_locked, Max2(new_locked \div length_as_balance, 1), start_block)
    IN  IF ~v.schedules.some THEN Returns(v, call, "NotVesting")
        ELSE IF sel = 0 THEN Returns(v, call, "NoSuitableScheduleFound")
        ELSE IF new_locked # 0 /\ ~is_valid(vesting_schedule)
        THEN Returns(v, call, "InvalidScheduleParams")
        ELSE AfterExec(v,
                 exec_action(IF new_locked # 0 THEN Append(updated_schedules, vesting_schedule)
                             ELSE updated_schedules,
                             Passive, v.now),
                 call)

\* a new schedule is pushed to the stored ones and the list is updated
PushSchedule(v, vesting_schedule, call) ==
    IF ~is_valid(vesting_schedule) THEN Returns(v, call, "InvalidScheduleParams")
    ELSE IF Len(v.schedules.v) >= MAX_VESTING_SCHEDULES
    THEN Returns(v, call, "AtMaxVestingSchedules")
    ELSE AfterExec([v EXCEPT !.adds = @ + 1],
                   exec_action(Append(v.schedules.v, vesting_schedule), Passive, v.now),
                   call)

\* MultiTokenVestingLocks::lock_tokens; starting_block is the block given,
\* or the current one; can_withdraw is what ensure_can_withdraw answers
lock_tokens(v, lock_amount, starting_block, ending_block, can_withdraw) ==
    LET call == Call("lock_tokens", FALSE)
        length_as_balance ==
            Max2(IF ending_block > starting_block THEN ending_block - starting_block ELSE 0, 1)
        per_block == Max2(lock_amount \div length_as_balance, 1)
    IN  IF ~can_withdraw THEN Returns(v, call, "LiquidityRestrictions")
        ELSE PushSchedule(v, VestingInfo_new(lock_amount, per_block, starting_block), call)

\* MultiTokenVestingSchedule::add_vesting_schedule
add_vesting_schedule(v, locked, per_block, starting_block) ==
    LET call == Call("add_vesting_schedule", locked = 0)
    IN  IF locked = 0 THEN Returns(v, call, "")
        ELSE PushSchedule(v, VestingInfo_new(locked, per_block, starting_block), call)

\* MultiTokenVestingSchedule::remove_vesting_schedule
remove_vesting_schedule(v, schedule_index) ==
    LET call == Call("remove_vesting_schedule", FALSE)
    IN  IF ~v.schedules.some THEN Returns(v, call, "NotVesting")
        ELSE AfterExec(v, exec_action(v.schedules.v, Remove(schedule_index), v.now), call)

VestStart ==
    [pc |-> "on", now |-> 1, schedules |-> None, lock |-> NoLock, adds |-> 0,
     op |-> Call("none", FALSE)]

InitVesting ==
    /\ sh_input = <<>>
    /\ sh_seed = ZeroSeed
    /\ sh_run = NoRun
    /\ sh_phase = "off"
    /\ storage = Genesis
    /\ last = NoImport
    /\ pw = PwIdle
    /\ bb = BbIdle
    /\ vest = VestStart

Indices == 0 .. MAX_VESTING_SCHEDULES

Vest ==
    /\ \E name \in {"vest", "vest_other"} : vest' = do_vest(vest, Call(name, FALSE))
    /\ UNCHANGED <<sh_vars, chain_vars, bb>>

MergeSchedules ==
    /\ \E i1 \in Indices, i2 \in Indices : vest' = merge_schedules(vest, i1, i2)
    /\ UNCHANGED <<sh_vars, chain_vars, bb>>

UnlockTokens ==
    /\ \E amount \in 0 .. MaxAmount : vest' = unlock_tokens(vest, amount)
    /\ UNCHANGED <<sh_vars, chain_vars, bb>>

LockTokens ==
    /\ vest.adds < MaxAdds
    /\ \E amount \in 0 .. MaxAmount, start \in 0 .. MaxNow, ending \in 0 .. (MaxNow + 1),
          can_withdraw \in BOOLEAN :
          vest' = lock_tokens(vest, amount, start, ending, can_withdraw)
    /\ UNCHANGED <<sh_vars, chain_vars, bb>>

AddVestingSchedule ==
    /\ vest.adds < MaxAdds
    /\ \E locked \in 0 .. MaxAmount, per_block \in 0 .. 2, start \in 0 .. MaxNow :
          vest' = add_vesting_schedule(vest, locked, per_block, start)
    /\ UNCHANGED <<sh_vars, chain_vars, bb>>

RemoveVestingSchedule ==
    /\ \E index \in Indices : vest' = remove_vesting_schedule(vest, index)
    /\ UNCHANGED <<sh_vars, chain_vars, bb>>

\* System::set_block_number: the next block
NextBlock ==
    /\ vest.now < MaxNow
    /\ vest' = [vest EXCEPT !.now = @ + 1, !.op = Call("set_block_number", FALSE)]
    /\ UNCHANGED <<sh_vars, chain_vars, bb>>

NextVesting ==
    \/ Vest
    \/ MergeSchedules
    \/ UnlockTokens
    \/ LockTokens
    \/ AddVestingSchedule
    \/ RemoveVestingSchedule
    \/ NextBlock

SpecVesting == InitVesting /\ [][NextVesting]_vars

(***************************************************************************)
(* Properties of the vesting pallet (checked under SpecVesting)            *)
(***************************************************************************)
\* the calls the bookkeeping is claimed for
VestingCalls ==
    {"vest", "vest_other", "merge_schedules", "lock_tokens", "unlock_tokens",
     "add_vesting_schedule", "remove_vesting_schedule"}

\* the stored schedules, none when the entry is absent
StoredSchedules == IF vest.schedules.some THEN vest.schedules.v ELSE <<>>

\* the entry is absent or holds 1 .. MAX_VESTING_SCHEDULES schedules that
\* all lock something now; the lock is the sum of what they lock now, and it
\* is removed exactly when the entry is absent
Bookkeeping ==
    /\ vest.schedules.some =>
          /\ Len(vest.schedules.v) \in 1 .. MAX_VESTING_SCHEDULES
          /\ \A i \in DOMAIN vest.schedules.v : locked_at(vest.schedules.v[i], vest.now) > 0
    /\ ~vest.schedules.some => vest.schedules.v = <<>>
    /\ vest.lock.amount = TotalLockedAt(StoredSchedules, vest.now)
    /\ vest.lock.held <=> vest.schedules.some

\* C40 as claimed: the bookkeeping holds after every successful call of
\* vest, vest_other, merge_schedules, lock_tokens, unlock_tokens,
\* add_vesting_schedule and remove_vesting_schedule.
C40_BookkeepingAfterEveryCall ==
    (vest.op.name \in VestingCalls /\ vest.op.err = "") => Bookkeeping

\* C40, amended: the bookkeeping holds after every successful call of the
\* seven but merge_schedules with two equal indices and
\* add_vesting_schedule with nothing to lock, which return Ok and leave the
\* storage as it was.
C40_BookkeepingAfterEveryWrite ==
    (vest.op.name \in VestingCalls /\ vest.op.err = "" /\ ~vest.op.trivial) => Bookkeeping

\* two schedules were merged after blocks went by: one schedule is stored,
\* part of it is vested and the lock is what it still holds
C40_Witness ==
    /\ vest.op.name = "merge_schedules"
    /\ vest.op.err = ""
    /\ ~vest.op.trivial
    /\ vest.now = MaxNow
    /\ vest.schedules.some
    /\ Len(vest.schedules.v) = 1
    /\ vest.lock.held
    /\ vest.lock.amount = locked_at(vest.schedules.v[1], vest.now)
    /\ vest.lock.amount > MaxAmount

====
